---- MODULE Spec2Model ----
(***************************************************************************)
(* The tool-use orchestration loop of parsec (src/agent/orchestrator.py):  *)
(* run_agent, the tool dispatch _execute_tool, the history manager         *)
(* _trim_history and the SSE events of src/agent/streaming.py.             *)
(***************************************************************************)
EXTENDS Integers, Sequences, FiniteSets, TLC

(* ------------------------------ bounds -------------------------------- *)

\* largest configured anthropic.max_tool_rounds explored (1..MaxRounds)
MaxRounds == 2

\* keepalive `status` events explored per run, all waits together
MaxBeats == 2

\* turns of the histories given to _trim_history directly
MaxTurns == 3

\* largest round ceiling of an alert investigation explored
MaxAlertRounds == 2

(* --------------------------- program constants ------------------------ *)

\* _trim_history(history, max_tokens=150000)
DefaultMaxTokens == 150000

\* asyncio.sleep(10) / asyncio.wait(timeout=10): the keepalive interval
HeartbeatSeconds == 10

(* ------------------------- messages and blocks ------------------------ *)

\* The content of a tool_result block.  kind tells what the value is:
\*   "dict"    a str that json.loads parses to a dict, written as json.dumps
\*             writes it,
\*   "json"    a str that json.loads parses to something else,
\*   "opaque"  a str that is not JSON,
\*   "cut"     the first 2000 characters of a "dict" string followed by
\*             "... [truncated]", which is not JSON,
\*   "unloadable"  a str on which json.loads raises ValueError or
\*             RecursionError (an integer of more than 4300 digits, arrays
\*             nested deeper than the recursion limit),
\*   "nonstr"  not a str (a list of blocks).
\* A dict holds a "summary" string of n characters, "rows", "results" (a list
\* of `results` numbers, -1: no such key, -2: present and not a list) and,
\* when marked, the key "_truncated_for_context".  rowsof tells what "rows"
\* holds: "none" no such key, "list" a list of `rows` numbers, "str" a string
\* of `rows` characters, "scalar" a number (null and booleans behave alike),
\* "object" an empty dict.  For the other kinds n is the length of the value.
Content(kind, n, rows, results, marked) ==
    [kind |-> kind, n |-> n, rowsof |-> IF rows >= 0 THEN "list" ELSE "none",
     rows |-> rows, results |-> results, marked |-> marked]

\* a record whose "rows" is not a list
RowsContent(n, rowsof, rows, results) ==
    [kind |-> "dict", n |-> n, rowsof |-> rowsof, rows |-> rows, results |-> results,
     marked |-> FALSE]

NoContent == Content("nonstr", 0, -1, -1, FALSE)

\* A content block.  `keys` are the top-level keys of a tool_use input or of
\* the result a tool_result block was built from in this run (empty for the
\* blocks of a history that was given); `len` is the length of a text or
\* tool_use block under json.dumps; `sdk` tells an SDK object (with SDK-only
\* fields) from a plain dict.
Block(type, id, name, keys, len, sdk, content) ==
    [type |-> type, id |-> id, name |-> name, keys |-> keys,
     len |-> len, sdk |-> sdk, content |-> content]

TextBlock(len, sdk) == Block("text", 0, "", {}, len, sdk, NoContent)

\* a tool_use block: under json.dumps, with an id of 30 characters and every
\* input value an empty string, it takes 85 characters, the name, `"key": ""`
\* for each input key and ", " between the entries
ToolUseBlock(id, name, keys, sdk) ==
    Block("tool_use", id, name, keys,
          85 + Len(name)
             + Cardinality(UNION {{k} \X (1..(Len(k) + 6)) : k \in keys})
             + (IF keys = {} THEN 0 ELSE 2 * (Cardinality(keys) - 1)),
          sdk, NoContent)

\* mutant: the tool_result block is not given the id of its tool_use block
ToolResultBlock_NoId(id, keys, content) == Block("tool_result", 0, "", keys, 0, FALSE, content)

\* {"type": "tool_result", "tool_use_id": tool_block.id, "content": json.dumps(result)}
ToolResultBlock(id, keys, content) == Block("tool_result", id, "", keys, 0, FALSE, content)

\* A message: content is a plain string of `len` characters (plain = TRUE)
\* or a list of blocks.
StrMessage(role, len) == [role |-> role, plain |-> TRUE, len |-> len, content |-> <<>>]

ListMessage(role, blocks) == [role |-> role, plain |-> FALSE, len |-> 0, content |-> blocks]

Min(a, b) == IF a <= b THEN a ELSE b

RECURSIVE SumLen(_)
SumLen(s) == IF s = <<>> THEN 0 ELSE Head(s) + SumLen(Tail(s))

\* len(json.dumps(list)): brackets, the items, ", " between them
ListLen(lens) == IF lens = <<>> THEN 2 ELSE 2 + SumLen(lens) + 2 * (Len(lens) - 1)

\* the entries of a dict content under json.dumps, each `"key": value`; a
\* number of rows or results takes 8 characters, a scalar 1, a dict 2
DictEntries(c) ==
    <<13 + c.n>>
    \o (CASE c.rowsof = "list" -> <<8 + ListLen([i \in 1..c.rows |-> 8])>>
          [] c.rowsof = "str" -> <<10 + c.rows>>
          [] c.rowsof = "scalar" -> <<9>>
          [] c.rowsof = "object" -> <<10>>
          [] OTHER -> <<>>)
    \o (IF c.results >= 0 THEN <<11 + ListLen([i \in 1..c.results |-> 8])>>
        ELSE IF c.results = -2 THEN <<12>> ELSE <<>>)
    \o (IF c.marked THEN <<30>> ELSE <<>>)

\* the offsets of the double quotes in each entry: around the key, and
\* around the value where it is a string
QuoteOffsets(c) ==
    << {0, 8, 11, 12 + c.n} >>
    \o (IF c.rowsof = "str" THEN << {0, 5, 8, 9 + c.rows} >>
        ELSE IF c.rowsof = "none" THEN <<>> ELSE << {0, 5} >>)
    \o (IF c.results = -1 THEN <<>> ELSE << {0, 8} >>)
    \o (IF c.marked THEN << {0, 23} >> ELSE <<>>)

\* the double quotes among the first 2000 characters of the text of a dict,
\* the brace first
QuotesKept(c) ==
    LET lens == DictEntries(c)
        offsets == QuoteOffsets(c)
    IN  Cardinality(UNION {{2 + SumLen(SubSeq(lens, 1, i - 1)) + 2 * (i - 1) + o
                                : o \in offsets[i]}
                           : i \in 1..Len(lens)}
                    \cap (1..2000))

\* result_str[:2000] + "... [truncated]"
CutLen == 2000 + 15

\* len(result_str)
StrLen(c) ==
    IF c.kind = "dict" THEN ListLen(DictEntries(c))
    ELSE IF c.kind = "cut" THEN CutLen
    ELSE c.n

\* the double quotes in result_str, each escaped by json.dumps
Quotes(c) ==
    IF c.kind = "dict"
    THEN 2 + 2 * Len(DictEntries(c)) + (IF c.rowsof = "str" THEN 2 ELSE 0)
    ELSE IF c.kind = "cut" THEN QuotesKept(c)
    ELSE 0

\* len(json.dumps(block)) of a tool_result block, its id 30 characters long
ToolResultLen(c) ==
    IF c.kind = "nonstr" THEN 85 + c.n ELSE 87 + StrLen(c) + Quotes(c)

BlockLen(b) == IF b.type = "tool_result" THEN ToolResultLen(b.content) ELSE b.len

RoleLen(role) == IF role = "user" THEN 4 ELSE 9

\* len(json.dumps({"role": r, "content": c}))
MessageLen(m) ==
    25 + RoleLen(m.role)
       + (IF m.plain THEN 2 + m.len
          ELSE ListLen([i \in 1..Len(m.content) |-> BlockLen(m.content[i])]))

\* _estimate_tokens: len(json.dumps(obj)) // 4
_estimate_tokens(msgs) == ListLen([i \in 1..Len(msgs) |-> MessageLen(msgs[i])]) \div 4

(* ------------------------------ trim ---------------------------------- *)

\* result_data["rows"][:5], the marker, the `results` list cut to 5,
\* json.dumps: only a list or a string can be sliced, so a record whose rows
\* is anything else gets the rewrite of the except clause
CutRecord(c) ==
    IF c.rowsof \in {"scalar", "object"} THEN [c EXCEPT !.kind = "cut"]
    ELSE [c EXCEPT !.rows = IF c.rowsof \in {"list", "str"} THEN Min(c.rows, 5) ELSE c.rows,
                   !.results = IF c.results >= 0 THEN Min(c.results, 5) ELSE c.results,
                   !.marked = c.marked \/ c.rowsof \in {"list", "str"} \/ c.results >= 0]

\* mutant: a record is cut whatever its length
TruncateContent_NoThreshold(c) ==
    IF c.kind = "nonstr" THEN c
    ELSE IF c.kind = "dict" THEN CutRecord(c)
    ELSE IF StrLen(c) <= 2000 THEN c
    ELSE IF c.kind = "opaque" THEN [c EXCEPT !.n = Min(c.n, 2000) + 15]
    ELSE c

\* the rewrite of one long tool_result content: rows and results cut to 5 and
\* the marker set for a dict, result_str[:2000] + "... [truncated]" for a
\* string that is not JSON and for a dict on which the slice of rows raises
\* TypeError.  (Where json.loads or the slice raises something else the
\* exception leaves _trim_history and the block stays as it is: see
\* RaisingBlocks.)
TruncateContent(c) ==
    IF c.kind = "nonstr" \/ StrLen(c) <= 2000 THEN c
    ELSE IF c.kind = "dict" THEN CutRecord(c)
    ELSE IF c.kind = "opaque" THEN [c EXCEPT !.n = Min(c.n, 2000) + 15]
    ELSE c

\* first pass, one block: a long tool_result content is rewritten
TruncateBlock(b) ==
    IF b.type = "tool_result" THEN [b EXCEPT !.content = TruncateContent(b.content)] ELSE b

\* what {}[:5] raises: TypeError (unhashable type: 'slice') on an
\* interpreter before Python 3.12, KeyError from 3.12 on, where a slice is
\* hashable
SliceOfDict == {"TypeError", "KeyError"}

\* the first pass raises at this content: a long string on which json.loads
\* raises something other than JSONDecodeError or TypeError, or a long record
\* whose rows is a dict where slicing it raises KeyError; the except clause
\* lets both through
RaisesAt(c, slice_error) ==
    /\ StrLen(c) > 2000
    /\ \/ c.kind = "unloadable"
       \/ c.kind = "dict" /\ c.rowsof = "object" /\ slice_error = "KeyError"

\* the blocks <<i, j>> of messages[:-4] at which the first pass raises
RaisingBlocks(msgs, slice_error) ==
    UNION {{i} \X {j \in 1..Len(msgs[i].content) :
                        /\ msgs[i].content[j].type = "tool_result"
                        /\ RaisesAt(msgs[i].content[j].content, slice_error)}
           : i \in 1..(Len(msgs) - 4)}

\* for msg in messages[:-4]: for block in content: the blocks are rewritten
\* in place, in order, up to `stop`, the first block at which the pass raises
TruncatePass(msgs, slice_error) ==
    LET raising == RaisingBlocks(msgs, slice_error)
        stop == IF raising = {} THEN <<Len(msgs) + 1, 1>>
                ELSE CHOOSE p \in raising :
                        \A q \in raising : p[1] < q[1] \/ (p[1] = q[1] /\ p[2] <= q[2])
    IN  [i \in 1..Len(msgs) |->
            IF i > Len(msgs) - 4 \/ msgs[i].plain \/ i > stop[1] THEN msgs[i]
            ELSE [msgs[i] EXCEPT !.content =
                    [j \in 1..Len(msgs[i].content) |->
                        IF i < stop[1] \/ j < stop[2]
                        THEN TruncateBlock(msgs[i].content[j])
                        ELSE msgs[i].content[j]]]]

\* isinstance(content, list) and all(b is a tool_result for b in content)
IsOrphanToolResult(m) ==
    /\ m.role = "user"
    /\ ~m.plain
    /\ \A i \in 1..Len(m.content) : m.content[i].type = "tool_result"

\* mutant: the orphan test comes before the assistant message is removed
EvictStep_OrphanFirst(msgs) ==
    LET a == Tail(msgs)
        b == IF a # <<>> /\ IsOrphanToolResult(Head(a)) THEN Tail(a) ELSE a
    IN  IF b # <<>> /\ Head(b).role = "assistant" THEN Tail(b) ELSE b

\* mutant: the step removes the pair and leaves the orphaned tool_result
EvictStep_PairOnly(msgs) ==
    LET a == Tail(msgs)
    IN  IF a # <<>> /\ Head(a).role = "assistant" THEN Tail(a) ELSE a

\* one iteration of the eviction loop's body
EvictStep(msgs) ==
    LET a == Tail(msgs)
        b == IF a # <<>> /\ Head(a).role = "assistant" THEN Tail(a) ELSE a
    IN  IF b # <<>> /\ IsOrphanToolResult(Head(b)) THEN Tail(b) ELSE b

\* mutant: the loop stops at 4 messages
RECURSIVE EvictLoop_KeepFour(_, _)
EvictLoop_KeepFour(msgs, max_tokens) ==
    IF Len(msgs) > 4 /\ _estimate_tokens(msgs) > max_tokens
    THEN EvictLoop_KeepFour(EvictStep(msgs), max_tokens)
    ELSE msgs

\* mutant: the loop body runs once before the condition is tested
RECURSIVE EvictLoop_DoWhile(_, _)
EvictLoop_DoWhile(msgs, max_tokens) ==
    LET e == EvictStep(msgs)
    IN  IF Len(e) > 2 /\ _estimate_tokens(e) > max_tokens
        THEN EvictLoop_DoWhile(e, max_tokens)
        ELSE e

RECURSIVE EvictLoop(_, _)
EvictLoop(msgs, max_tokens) ==
    IF Len(msgs) > 2 /\ _estimate_tokens(msgs) > max_tokens
    THEN EvictLoop(EvictStep(msgs), max_tokens)
    ELSE msgs

\* what a call of _trim_history gives: the list it returns, or the
\* exception of json.loads or of the slice
TrimReturned(msgs) == [raised |-> FALSE, messages |-> msgs]

TrimRaised == [raised |-> TRUE, messages |-> <<>>]

\* mutant: a history exactly at the budget is trimmed
_trim_history_StrictBudget(history, max_tokens, slice_error) ==
    IF history = <<>> THEN TrimReturned(<<>>)
    ELSE IF _estimate_tokens(history) < max_tokens THEN TrimReturned(history)
    ELSE IF RaisingBlocks(history, slice_error) # {} THEN TrimRaised
    ELSE TrimReturned(EvictLoop(TruncatePass(history, slice_error), max_tokens))

\* slice_error is the interpreter's part in the call: what slicing a dict
\* raises on it
_trim_history(history, max_tokens, slice_error) ==
    IF history = <<>> THEN TrimReturned(<<>>)
    ELSE IF _estimate_tokens(history) <= max_tokens THEN TrimReturned(history)
    ELSE IF RaisingBlocks(history, slice_error) # {} THEN TrimRaised
    ELSE TrimReturned(EvictLoop(TruncatePass(history, slice_error), max_tokens))

(* --------------------------- tool dispatch ---------------------------- *)

\* the keys each branch of _execute_tool reads with tool_input["..."]
RequiredKeys(tool_name) ==
    CASE tool_name = "query_provisions_db" -> {"sql"}
      [] tool_name = "query_aws_costs" -> {"account_ids", "start_date", "end_date"}
      [] tool_name = "query_azure_costs" -> {"start_date", "end_date"}
      [] tool_name = "query_gcp_costs" -> {"start_date", "end_date"}
      [] tool_name = "query_aws_pricing" -> {"instance_type"}
      [] tool_name = "query_cost_monitor" -> {"endpoint", "start_date", "end_date"}
      [] tool_name = "query_cloudtrail" -> {"query"}
      [] tool_name = "query_aws_account" -> {"account_id", "action"}
      [] OTHER -> {}

KnownTools ==
    {"query_provisions_db", "query_aws_costs", "query_azure_costs", "query_gcp_costs",
     "query_aws_pricing", "query_cost_monitor", "query_aws_capacity_manager",
     "query_cloudtrail", "query_aws_account", "query_marketplace_agreements",
     "render_chart", "generate_report"}

\* what a dispatch gives: a value or an exception.  form tells a dict (with
\* its top-level keys, and its "error" text when it has one) from a list and
\* from a scalar (a string, a number, a boolean, null); dumps tells whether
\* json.dumps takes the value.  The error text is the parts of the message
\* in order, written as the source writes them, the placeholders of an
\* f-string left in braces where the value is the caller's or the service's.
Returned(keys) ==
    [raised |-> FALSE, form |-> "dict", keys |-> keys, error |-> <<>>, dumps |-> TRUE]

\* a dict with an "error" entry and the keys `more`
ErrorPayload(text, more) ==
    [raised |-> FALSE, form |-> "dict", keys |-> {"error"} \cup more, error |-> text,
     dumps |-> TRUE]

\* a JSON value that is not an object, returned as it came
ReturnedBody(form) ==
    [raised |-> FALSE, form |-> form, keys |-> {}, error |-> <<>>, dumps |-> TRUE]

\* a dict holding a value json.dumps raises TypeError on (a set, bytes)
Unserialisable(keys) ==
    [raised |-> FALSE, form |-> "dict", keys |-> keys, error |-> <<>>, dumps |-> FALSE]

Raised == [raised |-> TRUE, form |-> "dict", keys |-> {}, error |-> <<>>, dumps |-> TRUE]

\* The handlers below take the keys of the input dict where the path depends
\* on them, and env: the condition the call runs under, which with the input
\* decides the path the handler takes.
\*   "ok"       the connections are initialised, the values given are of the
\*              documented type, valid and not empty, and the service answers
\*              with data matching the query,
\*   "uninit"   the connections are as they are at import (init_aws,
\*              init_azure, init_gcp did not run or failed) and the values
\*              of the configuration are not set,
\*   "fails"    the connection is initialised and the downstream call raises,
\*   "invalid"  an input value fails the handler's own validation (a date
\*              not YYYY-MM-DD, an account id not 12 digits, SQL that does
\*              not start with SELECT, an unknown endpoint),
\*   "nonstr"   a value the handler uses as a str is of another type (a date,
\*              the SQL or the content of a report is a number or null),
\*   "blank"    the values of the optional keys given are empty ('' or []),
\*   "empty"    the service answers and nothing matches the query,
\*   "unset"    a configuration value the handler reads as an attribute is
\*              not there,
\* and the conditions of one tool named at its handler.

\* execute_query: validate_sql (sql.strip() raises on a value that is not a
\* str; "blank": the SQL is empty; "forbidden": it holds a forbidden
\* keyword; "multiple": it holds a semicolon), cfg.provision_db read as an
\* attribute, then `pool = get_pool()` without await: pool is a coroutine,
\* `pool.acquire()` raises AttributeError inside the try, and every valid
\* query gets the error payload, whatever the database does
execute_query(env) ==
    IF env = "nonstr" THEN Raised
    ELSE IF env = "blank" THEN ErrorPayload(<<"Empty SQL statement">>, {})
    ELSE IF env = "invalid"
    THEN ErrorPayload(<<"Only SELECT queries allowed, got: {first_word}">>, {})
    ELSE IF env = "forbidden"
    THEN ErrorPayload(<<"Forbidden SQL keyword: {match.group()}">>, {})
    ELSE IF env = "multiple" THEN ErrorPayload(<<"Multiple statements not allowed">>, {})
    ELSE IF env = "unset" THEN Raised
    ELSE ErrorPayload(<<"Query execution failed: ",
                        "'coroutine' object has no attribute 'acquire'">>, {})

\* query_aws_costs: strptime of the dates (TypeError on a value that is not
\* a str is not caught), the group_by given ("bad_group_by": none of the
\* three dimensions), then get_ce_client(), which stands outside the try and
\* raises RuntimeError while AWS is not initialised.  "fails": a
\* get_cost_and_usage call raises, and its message does not hold "historical
\* data" or no valid account id was given.  "historical": valid account ids
\* were given, the call for a batch raises with "historical data" in its
\* message and the retry without the account filter answers;
\* "historical_fails": the retry raises too.
query_aws_costs(tool_input, env) ==
    IF env = "nonstr" THEN Raised
    ELSE IF env = "invalid" THEN ErrorPayload(<<"Dates must be YYYY-MM-DD format">>, {})
    ELSE IF env = "bad_group_by" /\ "group_by" \in tool_input
    THEN ErrorPayload(
            <<"Invalid group_by: {group_by}. Must be SERVICE, INSTANCE_TYPE, or LINKED_ACCOUNT">>,
            {})
    ELSE IF env = "uninit" THEN Raised
    ELSE IF env = "fails" THEN ErrorPayload(<<"AWS Cost Explorer query failed: {e}">>, {})
    ELSE IF env = "historical_fails"
    THEN ErrorPayload(<<"AWS Cost Explorer query failed: {retry_e}">>, {})
    ELSE Returned({"accounts_queried", "period", "group_by", "results", "total_cost"})

\* query_azure_costs: strptime of the dates (TypeError not caught), then the
\* SQLite cache when the file is there and holds rows ("cache", and
\* "cache_blank": the same with empty values for the optional keys), else
\* the live blobs, which need a subscription list or a meter filter that is
\* not empty.  Each of the two is tested by its truth value: `given` holds
\* the keys whose value is not empty ("blank", "cache_blank": both values
\* are empty or absent; "blank_filter": meter_filter is '' or absent, the
\* subscription list as given).  "no_blobs": no billing blob covers the
\* dates; "empty": blobs do and no row of them matches, the results are [].
query_azure_costs(tool_input, env) ==
    LET given == IF env \in {"blank", "cache_blank"} THEN {}
                 ELSE IF env = "blank_filter" THEN {"subscription_names"} \cap tool_input
                 ELSE {"subscription_names", "meter_filter"} \cap tool_input
        filter == {"meter_filter"} \cap given
    IN  IF env = "nonstr" THEN Raised
        ELSE IF env = "invalid" THEN ErrorPayload(<<"Dates must be YYYY-MM-DD format">>, {})
        ELSE IF env \in {"cache", "cache_blank"}
        THEN Returned({"subscriptions_queried", "period", "source", "cache_last_refresh",
                       "results", "total_cost"} \cup filter)
        ELSE IF env = "uninit" THEN ErrorPayload(<<"Azure blob storage not configured">>, {})
        ELSE IF given = {}
        THEN ErrorPayload(
                <<"meter_filter is required when querying all subscriptions without cache. ",
                  "Provide a search term to filter by MeterCategory or MeterSubCategory ",
                  "(e.g. 'Page Blob', 'Virtual Machines', 'NC Series').">>, {})
        ELSE IF env = "fails" THEN ErrorPayload(<<"Azure billing query failed: {e}">>, {})
        ELSE IF env = "no_blobs"
        THEN Returned({"subscriptions_queried", "period", "source", "results", "total_cost",
                       "note"})
        ELSE Returned({"subscriptions_queried", "period", "source", "blobs_processed",
                       "results", "total_cost"} \cup filter)

\* query_gcp_costs: the client test, strptime of the dates (TypeError not
\* caught), the billing table read from cfg.gcp as attributes outside the
\* try ("unset": billing_dataset or billing_account_id is not configured),
\* then the query
query_gcp_costs(env) ==
    IF env = "uninit" THEN ErrorPayload(<<"GCP BigQuery not configured">>, {})
    ELSE IF env = "nonstr" THEN Raised
    ELSE IF env = "invalid" THEN ErrorPayload(<<"Dates must be YYYY-MM-DD format">>, {})
    ELSE IF env = "unset" THEN Raised
    ELSE IF env = "fails" THEN ErrorPayload(<<"GCP BigQuery query failed: {e}">>, {})
    ELSE Returned({"period", "group_by", "breakdown", "daily_rows", "total_cost"})

\* query_aws_pricing: region_map.get(region, region) stands outside the try
\* ("nonstr": region is a list or a dict, not hashable); the rest is in the
\* try, and without credentials get_products raises.  "empty": PriceList is
\* empty; "no_on_demand": no product of it has an on-demand USD price.
query_aws_pricing(env) ==
    IF env = "nonstr" THEN Raised
    ELSE IF env \in {"uninit", "fails"}
    THEN ErrorPayload(<<"AWS Pricing API query failed: {e}">>, {})
    ELSE IF env = "empty"
    THEN ErrorPayload(<<"No pricing found for {instance_type} in {location}">>,
                      {"instance_type", "region"})
    ELSE IF env = "no_on_demand"
    THEN ErrorPayload(<<"No on-demand pricing found for {instance_type} in {location}">>,
                      {"instance_type", "region"})
    ELSE Returned({"instance_type", "region", "pricing"})

\* query_cost_monitor returns the JSON of the API as it is.  The keys of a
\* JSON object are the API's, which this repository does not fix: {"data"}
\* here.  "ok": an object, dashboard_url configured; "plain": an object, no
\* dashboard_url; "list_linked": a list, dashboard_url configured; "list": a
\* list, no dashboard_url; "scalar": a string, a number, a boolean or null,
\* returned as it is with or without dashboard_url.  "nonstr": providers is
\* given, not a str and true in a test (a number other than 0, a list that
\* is not empty): providers.split stands outside the try; a providers that
\* is false in a test (null, 0, [], "") is not split ("blank", the call goes
\* on as under "ok").  The three except branches have
\* a condition each, and "fails" is not one of this tool's: "uninit",
\* "unreachable": the service cannot be connected to (httpx.ConnectError;
\* nothing configured, the URL is the default one); "http_error": it answers
\* with an error status (httpx.HTTPStatusError); "other_error": any other
\* exception (a timeout, a body that is not JSON).
query_cost_monitor(tool_input, env) ==
    IF env = "nonstr" /\ "providers" \in tool_input THEN Raised
    ELSE IF env = "invalid"
    THEN ErrorPayload(
            <<"Unknown endpoint: {endpoint}. Use summary, breakdown, drilldown, or providers.">>,
            {})
    ELSE IF env \in {"uninit", "unreachable"}
    THEN ErrorPayload(
            <<"Cannot reach cost-monitor service. ",
              "It may not be running or accessible from this environment.">>, {})
    ELSE IF env = "http_error"
    THEN ErrorPayload(
            <<"cost-monitor API returned {e.response.status_code}: {e.response.text[:500]}">>,
            {})
    ELSE IF env = "other_error" THEN ErrorPayload(<<"cost-monitor query failed: {e}">>, {})
    ELSE IF env = "list" THEN ReturnedBody("list")
    ELSE IF env = "scalar" THEN ReturnedBody("scalar")
    ELSE IF env = "list_linked" THEN Returned({"results", "_dashboard_link"})
    ELSE IF env = "plain" THEN Returned({"data"})
    ELSE Returned({"data", "_dashboard_link"})

\* query_aws_capacity_manager: the whole body is in the try (get_aws_session
\* raises while AWS is not initialised; "invalid": a value min() or boto3
\* rejects).  "inventory": the metric given is "inventory" (the default is
\* "utilization").
query_aws_capacity_manager(tool_input, env) ==
    IF env \in {"uninit", "fails", "invalid"}
    THEN ErrorPayload(<<"AWS Capacity Manager query failed: {e}">>, {})
    ELSE IF env = "inventory" /\ "metric" \in tool_input
    THEN Returned({"metric", "persistent_reservations", "transient_excluded",
                   "transient_cost_usd", "results_truncated", "reservations"})
    ELSE Returned({"metric", "period", "group_by", "results", "totals"})

\* query_cloudtrail: the whole body is in the try.  "invalid": the query
\* does not start with SELECT; "uninit": the configuration has no cloudtrail
\* section, cfg.cloudtrail raises; "no_store_id": it has, and
\* event_data_store_id is not set or empty; "no_session": it is set, and AWS
\* is not initialised; "nonstr":
\* query.strip() raises; "fails": start_query or get_query_results raises;
\* "query_failed": the query runs and ends with the status FAILED, CANCELLED
\* or TIMED_OUT; "timed_out": the polling of _run_query reaches
\* QUERY_TIMEOUT; "empty": the query matched no row, and the result has no
\* "truncated" key.
query_cloudtrail(env) ==
    IF env = "invalid"
    THEN ErrorPayload(<<"Only SELECT queries are allowed against CloudTrail Lake">>, {})
    ELSE IF env = "no_store_id"
    THEN ErrorPayload(<<"CloudTrail event data store ID not configured">>, {})
    ELSE IF env \in {"nonstr", "uninit", "no_session", "fails"}
    THEN ErrorPayload(<<"CloudTrail Lake query failed: {e}">>, {})
    ELSE IF env = "query_failed"
    THEN ErrorPayload(<<"CloudTrail Lake query {status}: {error_msg}">>, {})
    ELSE IF env = "timed_out"
    THEN ErrorPayload(
            <<"CloudTrail Lake query timed out after {elapsed}s. ",
              "Try narrowing the eventTime range to reduce data scanned.">>, {})
    ELSE IF env = "empty" THEN Returned({"columns", "rows", "row_count", "bytes_scanned"})
    ELSE Returned({"columns", "rows", "row_count", "bytes_scanned", "truncated"})

\* query_aws_account: the whole body is in the try; account_id, action and
\* region are added to whatever _execute_action returns.  "ok": action is
\* describe_instances; "lookup_events", "list_users", "describe_marketplace":
\* that action; "unsupported": describe_marketplace where SearchAgreements is
\* not supported; "no_access": describe_marketplace refused; "refused":
\* assume_role refused; "suspended": refused, the account being suspended;
\* "unknown_action"; "nonstr": account_id is a number, len() raises.
query_aws_account(env) ==
    LET call == {"account_id", "action", "region"}
    IN  IF env = "invalid"
        THEN ErrorPayload(<<"Invalid AWS account ID: {account_id}. Must be 12 digits.">>, {})
        ELSE IF env \in {"nonstr", "uninit", "fails"}
        THEN ErrorPayload(<<"AWS account query failed: {e}">>, {})
        ELSE IF env = "suspended"
        THEN ErrorPayload(
                <<"Account {account_id} ({name or 'unknown'}) is suspended/closed. ",
                  "Cannot assume role in suspended accounts.">>,
                {"account_status", "account_name"} \cup call)
        ELSE IF env = "refused"
        THEN ErrorPayload(
                <<"Cannot assume role in account {account_id}. ",
                  "The account may not have OrganizationAccountAccessRole ",
                  "or may not be in our organization.">>,
                {"account_status", "account_name"} \cup call)
        ELSE IF env = "unknown_action"
        THEN ErrorPayload(
                <<"Unknown action: {action}. Valid: {list(_ACTION_DISPATCH.keys())}">>, call)
        ELSE IF env = "no_access"
        THEN ErrorPayload(<<"No marketplace-agreement access in account: {e}">>, call)
        ELSE IF env = "lookup_events" THEN Returned({"event_count", "events"} \cup call)
        ELSE IF env = "list_users" THEN Returned({"user_count", "users"} \cup call)
        ELSE IF env = "describe_marketplace"
        THEN Returned({"agreement_count", "agreements"} \cup call)
        ELSE IF env = "unsupported"
        THEN Returned({"agreement_count", "agreements", "note"} \cup call)
        ELSE Returned({"instance_count", "instances"} \cup call)

\* query_marketplace_agreements: the whole body is in the try.  _clean_item
\* drops pk, error and term_types and turns Decimal into float; every other
\* attribute of an item is returned as boto3 gives it.  "unserialisable": an
\* item holds a set or a binary attribute beside those.
query_marketplace_agreements(env) ==
    IF env \in {"uninit", "fails", "invalid"}
    THEN ErrorPayload(<<"Marketplace agreements query failed: {e}">>, {})
    ELSE IF env = "unserialisable" THEN Unserialisable({"agreements", "count", "truncated"})
    ELSE Returned({"agreements", "count", "truncated"})

\* _save_report: reads title and content (KeyError), writes the file (open()
\* raises when REPORTS_DIR cannot be written: "unwritable"; write() raises
\* on a content that is not a str: "nonstr"), returns the descriptor
_save_report(tool_input, env) ==
    IF ~({"title", "content"} \subseteq tool_input) THEN Raised
    ELSE IF env \in {"unwritable", "nonstr"} THEN Raised
    ELSE Returned({"filename", "format", "title", "path", "size_bytes"})

\* the conditions that tell the paths of a tool's handler apart
ToolEnvs(tool_name) ==
    CASE tool_name = "query_provisions_db" ->
            {"ok", "nonstr", "blank", "invalid", "forbidden", "multiple", "unset"}
      [] tool_name = "query_aws_costs" ->
            {"ok", "uninit", "fails", "invalid", "nonstr", "bad_group_by", "historical",
             "historical_fails"}
      [] tool_name = "query_azure_costs" ->
            {"ok", "uninit", "fails", "invalid", "nonstr", "blank", "blank_filter", "empty",
             "no_blobs", "cache", "cache_blank"}
      [] tool_name = "query_gcp_costs" -> {"ok", "uninit", "fails", "invalid", "nonstr", "unset"}
      [] tool_name = "query_aws_pricing" ->
            {"ok", "uninit", "fails", "nonstr", "empty", "no_on_demand"}
      [] tool_name = "query_cost_monitor" ->
            {"ok", "uninit", "unreachable", "http_error", "other_error", "invalid",
             "nonstr", "blank", "plain", "list", "list_linked", "scalar"}
      [] tool_name = "query_aws_capacity_manager" ->
            {"ok", "uninit", "fails", "invalid", "inventory"}
      [] tool_name = "query_cloudtrail" ->
            {"ok", "uninit", "no_store_id", "no_session", "fails", "invalid", "nonstr",
             "query_failed", "timed_out", "empty"}
      [] tool_name = "query_aws_account" ->
            {"ok", "uninit", "fails", "invalid", "nonstr", "refused", "suspended",
             "unknown_action", "no_access", "lookup_events", "list_users",
             "describe_marketplace", "unsupported"}
      [] tool_name = "query_marketplace_agreements" ->
            {"ok", "uninit", "fails", "invalid", "unserialisable"}
      [] tool_name = "generate_report" -> {"ok", "unwritable", "nonstr"}
      [] OTHER -> {"ok"}

\* mutant: an unknown tool name raises instead of returning an error payload
_execute_tool_UnknownRaises(tool_name, tool_input, env) ==
    IF ~(RequiredKeys(tool_name) \subseteq tool_input) THEN Raised
    ELSE CASE tool_name = "query_provisions_db" -> execute_query(env)
           [] tool_name = "query_aws_costs" -> query_aws_costs(tool_input, env)
           [] tool_name = "query_azure_costs" -> query_azure_costs(tool_input, env)
           [] tool_name = "query_gcp_costs" -> query_gcp_costs(env)
           [] tool_name = "query_aws_pricing" -> query_aws_pricing(env)
           [] tool_name = "query_cost_monitor" -> query_cost_monitor(tool_input, env)
           [] tool_name = "query_aws_capacity_manager" ->
                    query_aws_capacity_manager(tool_input, env)
           [] tool_name = "query_cloudtrail" -> query_cloudtrail(env)
           [] tool_name = "query_aws_account" -> query_aws_account(env)
           [] tool_name = "query_marketplace_agreements" -> query_marketplace_agreements(env)
           [] tool_name = "render_chart" -> Returned(tool_input)
           [] tool_name = "generate_report" -> _save_report(tool_input, env)
           [] OTHER -> Raised

\* _execute_tool: tool_input is the set of keys of the input dict.  A branch
\* reads its required keys with tool_input["..."] (KeyError) and calls the
\* handler; render_chart returns its input; an unknown name gets an error
\* payload.
_execute_tool(tool_name, tool_input, env) ==
    IF ~(RequiredKeys(tool_name) \subseteq tool_input) THEN Raised
    ELSE CASE tool_name = "query_provisions_db" -> execute_query(env)
           [] tool_name = "query_aws_costs" -> query_aws_costs(tool_input, env)
           [] tool_name = "query_azure_costs" -> query_azure_costs(tool_input, env)
           [] tool_name = "query_gcp_costs" -> query_gcp_costs(env)
           [] tool_name = "query_aws_pricing" -> query_aws_pricing(env)
           [] tool_name = "query_cost_monitor" -> query_cost_monitor(tool_input, env)
           [] tool_name = "query_aws_capacity_manager" ->
                    query_aws_capacity_manager(tool_input, env)
           [] tool_name = "query_cloudtrail" -> query_cloudtrail(env)
           [] tool_name = "query_aws_account" -> query_aws_account(env)
           [] tool_name = "query_marketplace_agreements" -> query_marketplace_agreements(env)
           [] tool_name = "render_chart" -> Returned(tool_input)
           [] tool_name = "generate_report" -> _save_report(tool_input, env)
           [] OTHER -> ErrorPayload(<<"Unknown tool: ", tool_name>>, {})

(* ------------------------------ events -------------------------------- *)

\* sse_event(event, data): the event name and what the claims need of data:
\* the tool, whether the payload has an "error" key and its text, the elapsed
\* seconds of a keepalive, the messages of a history event
sse_event(type, tool, err, detail, elapsed, msgs) ==
    [type |-> type, tool |-> tool, err |-> err, detail |-> detail,
     elapsed |-> elapsed, msgs |-> msgs]

sse_text == sse_event("text", "", FALSE, <<>>, 0, <<>>)

sse_tool_start(tool_name) == sse_event("tool_start", tool_name, FALSE, <<>>, 0, <<>>)

sse_tool_result(tool_name, result) ==
    sse_event("tool_result", tool_name, "error" \in result.keys, result.error, 0, <<>>)

sse_report == sse_event("report", "generate_report", FALSE, <<>>, 0, <<>>)

sse_chart == sse_event("chart", "render_chart", FALSE, <<>>, 0, <<>>)

sse_status(tool_name, elapsed) == sse_event("status", tool_name, FALSE, <<>>, elapsed, <<>>)

sse_error == sse_event("error", "", TRUE, <<>>, 0, <<>>)

sse_done == sse_event("done", "", FALSE, <<>>, 0, <<>>)

\* _clean_content_block: SDK-only fields are stripped from tool_use blocks
_clean_content_block(b) == IF b.type = "tool_use" THEN [b EXCEPT !.sdk = FALSE] ELSE b

\* mutant: the last message is left out of the serialization
_serialize_messages_DropLast(msgs) ==
    [i \in 1..(Len(msgs) - 1) |->
        IF msgs[i].plain THEN msgs[i]
        ELSE [msgs[i] EXCEPT !.content =
                [j \in 1..Len(msgs[i].content) |-> _clean_content_block(msgs[i].content[j])]]]

_serialize_messages(msgs) ==
    [i \in 1..Len(msgs) |->
        IF msgs[i].plain THEN msgs[i]
        ELSE [msgs[i] EXCEPT !.content =
                [j \in 1..Len(msgs[i].content) |-> _clean_content_block(msgs[i].content[j])]]]

sse_history(msgs) == sse_event("history", "", FALSE, <<>>, 0, _serialize_messages(msgs))

(* ------------------------------ inputs -------------------------------- *)

\* {"role": "user", "content": question}
Question == StrMessage("user", 40)

\* conversation_history values a client sends: none, the history of a prior
\* clean run, a long history with a large tool result (over the budget), and
\* a long history with a tool result on which json.loads raises
SeedClean == << Question, ListMessage("assistant", <<TextBlock(60, FALSE)>>) >>

SeedLong ==
    << Question,
       ListMessage("assistant", <<ToolUseBlock(1, "query_cloudtrail", {"query"}, FALSE)>>),
       ListMessage("user", <<ToolResultBlock(1, {}, Content("dict", 700000, 9, -1, FALSE))>>),
       ListMessage("assistant", <<TextBlock(60, FALSE)>>) >>
    \o SeedClean

SeedPoison ==
    << Question,
       ListMessage("assistant", <<ToolUseBlock(1, "query_cloudtrail", {"query"}, FALSE)>>),
       ListMessage("user", <<ToolResultBlock(1, {}, Content("unloadable", 700000, -1, -1, FALSE))>>),
       ListMessage("assistant", <<TextBlock(60, FALSE)>>) >>
    \o SeedClean \o SeedClean

SeedHistories == { <<>>, SeedClean, SeedLong, SeedPoison }

\* shapes of the content blocks a model response holds
TextShape == [type |-> "text", name |-> "", keys |-> {}]

ToolUseShape(name, keys) == [type |-> "tool_use", name |-> name, keys |-> keys]

Responses ==
    { <<>>,
      <<TextShape>>,
      <<ToolUseShape("render_chart", {"chart_type", "data"}),
        ToolUseShape("render_chart", {"error"})>>,
      <<TextShape, ToolUseShape("generate_report", {"title", "content"}),
        ToolUseShape("query_provisions_db", {"sql"})>>,
      <<ToolUseShape("query_marketplace_agreements", {}), ToolUseShape("generate_report", {"title"})>>,
      <<ToolUseShape("query_provisions_db", {}), TextShape>>,
      <<ToolUseShape("no_such_tool", {"x"}),
        ToolUseShape("query_aws_costs", {"account_ids", "start_date", "end_date"})>> }

\* the conditions explored for the dispatches of a run
Envs == {"ok", "uninit", "unwritable", "nonstr", "unserialisable"}

(* ------------------------------- state -------------------------------- *)

VARIABLES
    pc,            \* the yield or await run_agent is suspended at
    max_rounds,    \* cfg.anthropic max_tool_rounds
    messages,      \* the Conversation
    base,          \* index in messages of the question of this run
    round,         \* _round
    assistant_content, \* response.content while its blocks are scanned
    scan,          \* index of the next block of assistant_content to scan
    pending,       \* tool_use_blocks from the one being handled on
    tool_results,  \* tool_results built so far in this round
    elapsed,       \* elapsed of the wait in progress
    stream,        \* the events yielded so far
    calls,         \* client.messages.create calls issued
    dispatches,    \* _execute_tool tasks created
    beats,         \* keepalive events emitted in this run
    ending,        \* how the run ended
    task,          \* api_task / task: "idle", "running" or "done"
    timer,         \* the 10 seconds of the sleep or wait: "off", "armed", "fired"
    outcome,       \* what the finished task holds; for a tool, kept until its
                   \* result is appended to tool_results
    tpc,           \* a caller of _trim_history: "input", "trimmed", "retrimmed",
                   \* or "raised", "reraised" when the call raised
    tinput,        \* the history as it was before the call
    tbudget,       \* max_tokens
    thistory,      \* the caller's history (the same list object) after the call
    tresult,       \* what _trim_history returned
    tagain,        \* _trim_history of that result
    tbuild,        \* what slicing a dict raises on the interpreter that runs it
    apc,           \* investigate_alert: where the request stands
    aconfigured,   \* cfg alert_api_key
    akey,          \* the X-API-Key header
    amax,          \* the round ceiling of the investigation
    around,        \* model calls the investigation has made
    asubmitted,    \* the verdict the model submitted, if any
    aresult,       \* the verdict record of the request
    astatus,       \* the HTTP status of the response
    gnow,          \* time.time()
    gtoken,        \* os.path.exists(_SA_TOKEN_PATH)
    _groups_cache, \* routes/query.py _groups_cache
    _groups_cache_time, \* routes/query.py _groups_cache_time
    gcall,         \* the calls of _fetch_openshift_groups, per request
    gmade,         \* calls of _fetch_openshift_groups made so far
    gfetches,      \* GET requests issued to the groups API
    glast,         \* the items of the last successful fetch
    qpc,           \* where _run_query stands
    qelapsed,      \* elapsed of _run_query
    qpolls,        \* get_query_results calls of the polling loop
    qstatus,       \* result["QueryStatus"] of the last poll
    qresult,       \* what _run_query returned
    _assumed_creds, \* tools/aws_account.py _assumed_creds
    ccall,         \* the calls of _get_assumed_creds, per worker thread
    cmade,         \* calls of _get_assumed_creds made so far
    csts,          \* sts.assume_role calls issued
    cfirst,        \* per account, what the first call to return returned
    _pool,         \* connections/postgres.py _pool: 0 for None, else the n-th pool created
    pcall,         \* the get_pool and init_pool calls, per task
    pmade,         \* get_pool and init_pool calls made so far
    pcreated,      \* pools asyncpg.create_pool has created
    preplaced,     \* init_pool and close_pool calls made while _pool was set
    rfiles,        \* the files of REPORTS_DIR: their content by name
    rrun,          \* per run, the generate_report call in progress
    revents,       \* the `report` events emitted, with the content of their call
    rmade          \* generate_report calls made so far

runvars == << pc, max_rounds, messages, base, round, assistant_content, scan, pending,
              tool_results, elapsed, stream, calls, dispatches, beats, ending, task, timer,
              outcome >>

trimvars == << tpc, tinput, tbudget, thistory, tresult, tagain, tbuild >>

alertvars == << apc, aconfigured, akey, amax, around, asubmitted, aresult, astatus >>

groupvars == << gnow, gtoken, _groups_cache, _groups_cache_time, gcall, gmade, gfetches, glast >>

trailvars == << qpc, qelapsed, qpolls, qstatus, qresult >>

\* the module state outside the agent
credvars == << _assumed_creds, ccall, cmade, csts, cfirst >>

poolvars == << _pool, pcall, pmade, pcreated, preplaced >>

reportvars == << rfiles, rrun, revents, rmade >>

sidevars == << groupvars, trailvars, credvars, poolvars, reportvars >>

\* the state of the other entry points, untouched by run_agent
othervars == << trimvars, alertvars, sidevars >>

vars == << runvars, othervars >>

\* the value of a task: the response or the APIError of the model call, or
\* the behaviour of the capability a tool dispatch ran
Outcome(kind, resp, env) == [kind |-> kind, resp |-> resp, env |-> env]

NoOutcome == Outcome("none", <<>>, "")

Emit(events) == stream' = stream \o events

\* a verdict record: should_alert, severity, and how the investigation came
\* to it
Verdict(should_alert, severity, via) ==
    [should_alert |-> should_alert, severity |-> severity, given |-> TRUE, via |-> via]

NoVerdict == [should_alert |-> FALSE, severity |-> "none", given |-> FALSE, via |-> "none"]

\* no _trim_history caller of its own
TrimIdle ==
    /\ tpc = "off"
    /\ tinput = <<>>
    /\ tbudget = 0
    /\ thistory = <<>>
    /\ tresult = <<>>
    /\ tagain = <<>>
    /\ tbuild = "TypeError"

\* no alert request
AlertIdle ==
    /\ apc = "off"
    /\ aconfigured = ""
    /\ akey = ""
    /\ amax = 0
    /\ around = 0
    /\ asubmitted = NoVerdict
    /\ aresult = NoVerdict
    /\ astatus = 0

\* a value that `items` of the groups API's JSON body, and so _groups_cache,
\* can hold: a "list" of groups, "null", a "number" other than 0, "zero",
\* "true", "false", a "string" and an "object" that are not empty
GroupsValue(kind, items) == [kind |-> kind, items |-> items]

\* a call of _fetch_openshift_groups: where it stands, the branch it took
\* and what it returned
GroupsCallState(at, how, ret) == [at |-> at, how |-> how, ret |-> ret]

GroupsRequests == {1, 2}

\* no request has asked for the groups
GroupsIdle ==
    /\ gnow = 0
    /\ gtoken = FALSE
    /\ _groups_cache = GroupsValue("list", <<>>)
    /\ _groups_cache_time = 0
    /\ gcall = [c \in GroupsRequests |-> GroupsCallState("idle", "none", GroupsValue("list", <<>>))]
    /\ gmade = 0
    /\ gfetches = 0
    /\ glast = GroupsValue("list", <<>>)

\* no CloudTrail Lake query
TrailIdle ==
    /\ qpc = "off"
    /\ qelapsed = 0
    /\ qpolls = 0
    /\ qstatus = "none"
    /\ qresult = "none"

Accounts == {"111111111111", "222222222222"}

\* the worker threads of asyncio.to_thread(_execute_action, ...)
CredThreads == {1, 2}

\* an entry of _assumed_creds or a value of _get_assumed_creds: no entry,
\* None, or the Credentials of the n-th assume_role call, each call issuing
\* its own
Creds(kind, n) == [kind |-> kind, token |-> n]

\* a call of _get_assumed_creds: where it stands, its account_id, the number
\* of its assume_role call and what it returned
CredsCallState(at, account, sts, ret) == [at |-> at, account |-> account, sts |-> sts, ret |-> ret]

\* no call of _get_assumed_creds has been made
CredsIdle ==
    /\ _assumed_creds = [a \in Accounts |-> Creds("absent", 0)]
    /\ ccall = [t \in CredThreads |-> CredsCallState("idle", "", 0, Creds("absent", 0))]
    /\ cmade = 0
    /\ csts = 0
    /\ cfirst = [a \in Accounts |-> Creds("absent", 0)]

\* the tasks of the event loop that ask for the pool
PoolTasks == {1, 2, 3}

\* a call of get_pool, init_pool or close_pool: where it stands, which
\* function it is and the pool it returned
PoolCallState(at, kind, ret) == [at |-> at, kind |-> kind, ret |-> ret]

\* the pool is uninitialised and nobody asks for it
PoolIdle ==
    /\ _pool = 0
    /\ pcall = [t \in PoolTasks |-> PoolCallState("idle", "none", 0)]
    /\ pmade = 0
    /\ pcreated = 0
    /\ preplaced = 0

\* the full_filename of _save_report: the given name, or the dated default
\* name, and the extension of the format
ReportFileName(filename, fmt) ==
    [stem |-> IF filename = "" THEN "investigation_report_DATE" ELSE filename,
     ext |-> IF fmt = "asciidoc" THEN ".adoc" ELSE ".md"]

\* tool_input of generate_report: filename, format, content
ReportFilenames == {"", "q3_costs"}

ReportFormats == {"markdown", "asciidoc"}

ReportContents == {"report one", "report two"}

ReportRuns == {1, 2}

\* a generate_report call of a run: where it stands, the file it wrote and
\* the content it was given
ReportCallState(at, filename, content) == [at |-> at, filename |-> filename, content |-> content]

\* REPORTS_DIR is empty and no run writes a report
ReportIdle ==
    /\ rfiles = [n \in {ReportFileName(f, fmt) : f \in ReportFilenames, fmt \in ReportFormats} |-> ""]
    /\ rrun = [r \in ReportRuns |-> ReportCallState("idle", ReportFileName("", "markdown"), "")]
    /\ revents = <<>>
    /\ rmade = 0

\* the module state outside the agent is as it is at import
SideIdle == GroupsIdle /\ TrailIdle /\ CredsIdle /\ PoolIdle /\ ReportIdle

\* run_agent has been called
RunInit ==
    /\ pc = "start"
    /\ max_rounds \in 1..MaxRounds
    /\ messages = <<>>
    /\ base = 0
    /\ round = 0
    /\ assistant_content = <<>>
    /\ scan = 0
    /\ pending = <<>>
    /\ tool_results = <<>>
    /\ elapsed = 0
    /\ stream = <<>>
    /\ calls = 0
    /\ dispatches = 0
    /\ beats = 0
    /\ ending = "running"
    /\ task = "idle"
    /\ timer = "off"
    /\ outcome = NoOutcome

\* no run of run_agent
RunIdle ==
    /\ pc = "off"
    /\ max_rounds = 1
    /\ messages = <<>>
    /\ base = 0
    /\ round = 0
    /\ assistant_content = <<>>
    /\ scan = 0
    /\ pending = <<>>
    /\ tool_results = <<>>
    /\ elapsed = 0
    /\ stream = <<>>
    /\ calls = 0
    /\ dispatches = 0
    /\ beats = 0
    /\ ending = "running"
    /\ task = "idle"
    /\ timer = "off"
    /\ outcome = NoOutcome

Init == RunInit /\ TrimIdle /\ AlertIdle /\ SideIdle

(* ------------------------------ run_agent ------------------------------ *)

\* run_agent is an async generator: it runs when its consumer asks for the
\* next event and stops at the next yield, or at an await until the event
\* loop wakes it.  Each action below is one such stretch; pc names the yield
\* or the await the generator is suspended at.

\* mutant: the loop runs one round too many (range(max_rounds + 1))
RoundTop_OffByOne(r) ==
    IF r <= max_rounds
    THEN /\ Emit(<<sse_status("", 0)>>)
         /\ pc' = "status_yielded"
         /\ UNCHANGED ending
    ELSE /\ Emit(<<sse_text>>)
         /\ pc' = "ceiling_yielded"
         /\ ending' = "ceiling"

\* the top of the for loop with _round = r, up to its yield: the status
\* event of the round or, range(max_rounds) used up, the explanatory text
RoundTop(r) ==
    IF r < max_rounds
    THEN /\ Emit(<<sse_status("", 0)>>)
         /\ pc' = "status_yielded"
         /\ UNCHANGED ending
    ELSE /\ Emit(<<sse_text>>)
         /\ pc' = "ceiling_yielded"
         /\ ending' = "ceiling"

\* _build_client raises ValueError (no API key, no Vertex project): the
\* error event
BuildClientFails ==
    /\ pc = "start"
    /\ Emit(<<sse_error>>)
    /\ pc' = "error_yielded"
    /\ ending' = "config_error"
    /\ UNCHANGED << max_rounds, messages, base, round, assistant_content, scan, pending,
                    tool_results, elapsed, calls, dispatches, beats, task, timer, outcome >>
    /\ UNCHANGED othervars

\* mutant: the seed history is used as it came
Start_NoTrim(history) ==
    /\ pc = "start"
    /\ messages' = Append(history, Question)
    /\ base' = Len(history) + 1
    /\ RoundTop(0)
    /\ UNCHANGED << max_rounds, round, assistant_content, scan, pending, tool_results,
                    elapsed, calls, dispatches, beats, task, timer, outcome >>
    /\ UNCHANGED othervars

\* messages = _trim_history(conversation_history or []), which may raise
\* out of run_agent; append the question; the first round's status event
Start(history) ==
    /\ pc = "start"
    /\ \E slice_error \in SliceOfDict :
       LET trimmed == _trim_history(history, DefaultMaxTokens, slice_error)
       IN  IF trimmed.raised
           THEN /\ pc' = "crashed"
                /\ ending' = "trim_exception"
                /\ UNCHANGED << messages, base, stream >>
           ELSE /\ messages' = Append(trimmed.messages, Question)
                /\ base' = Len(trimmed.messages) + 1
                /\ RoundTop(0)
    /\ UNCHANGED << max_rounds, round, assistant_content, scan, pending, tool_results,
                    elapsed, calls, dispatches, beats, task, timer, outcome >>
    /\ UNCHANGED othervars

\* api_task = asyncio.ensure_future(asyncio.to_thread(_call_api)); elapsed =
\* 0; the task is not done: await asyncio.sleep(10)
IssueModelCall ==
    /\ pc = "status_yielded"
    /\ calls' = calls + 1
    /\ task' = "running"
    /\ outcome' = NoOutcome
    /\ elapsed' = 0
    /\ timer' = "armed"
    /\ pc' = "await_model"
    /\ UNCHANGED << max_rounds, messages, base, round, assistant_content, scan, pending,
                    tool_results, stream, dispatches, beats, ending >>
    /\ UNCHANGED othervars

\* the model call returns a response
ModelCallReturns(resp) ==
    /\ pc \in {"await_model", "model_beat_yielded"}
    /\ task = "running"
    /\ task' = "done"
    /\ outcome' = Outcome("response", resp, "")
    /\ UNCHANGED << pc, max_rounds, messages, base, round, assistant_content, scan, pending,
                    tool_results, elapsed, stream, calls, dispatches, beats, ending, timer >>
    /\ UNCHANGED othervars

\* what client.messages.create can raise: anthropic.APIError, which
\* run_agent handles, or any other exception (an error of the credentials
\* of the Vertex or Bedrock backend, raised while the request is prepared)
ModelFaults == {"api_error", "exception"}

\* the model call raises
ModelCallRaises(fault) ==
    /\ pc \in {"await_model", "model_beat_yielded"}
    /\ task = "running"
    /\ task' = "done"
    /\ outcome' = Outcome(fault, <<>>, "")
    /\ UNCHANGED << pc, max_rounds, messages, base, round, assistant_content, scan, pending,
                    tool_results, elapsed, stream, calls, dispatches, beats, ending, timer >>
    /\ UNCHANGED othervars

\* the 10 seconds of asyncio.sleep(10) or of asyncio.wait(timeout=10) are
\* over (at most MaxBeats keepalives follow from it)
TimerFires ==
    /\ pc \in {"await_model", "await_tool"}
    /\ timer = "armed"
    /\ pc = "await_model" \/ task = "running"
    /\ task = "done" \/ beats < MaxBeats
    /\ timer' = "fired"
    /\ UNCHANGED << pc, max_rounds, messages, base, round, assistant_content, scan, pending,
                    tool_results, elapsed, stream, calls, dispatches, beats, ending, task,
                    outcome >>
    /\ UNCHANGED othervars

\* the sleep is over and the API call still runs: elapsed += 10, the
\* keepalive
ModelHeartbeat ==
    /\ pc = "await_model"
    /\ timer = "fired"
    /\ task = "running"
    /\ elapsed' = elapsed + HeartbeatSeconds
    /\ Emit(<<sse_status("", elapsed + HeartbeatSeconds)>>)
    /\ beats' = beats + 1
    /\ timer' = "off"
    /\ pc' = "model_beat_yielded"
    /\ UNCHANGED << max_rounds, messages, base, round, assistant_content, scan, pending,
                    tool_results, calls, dispatches, ending, task, outcome >>
    /\ UNCHANGED othervars

\* after the keepalive, `while not api_task.done()`: the next sleep
ModelSleepsAgain ==
    /\ pc = "model_beat_yielded"
    /\ task = "running"
    /\ timer' = "armed"
    /\ pc' = "await_model"
    /\ UNCHANGED << max_rounds, messages, base, round, assistant_content, scan, pending,
                    tool_results, elapsed, stream, calls, dispatches, beats, ending, task,
                    outcome >>
    /\ UNCHANGED othervars

\* the generator goes on to api_task.result(): the task is done and the
\* sleep is over, or the consumer resumes it after a keepalive.  The end of
\* the call does not cut the sleep short.
ModelWaitOver ==
    /\ task = "done"
    /\ \/ pc = "await_model" /\ timer = "fired"
       \/ pc = "model_beat_yielded"

\* mutant: the handler also streams the error message as answer text
ModelFails_AlsoText ==
    /\ ModelWaitOver
    /\ outcome.kind = "api_error"
    /\ task' = "idle"
    /\ timer' = "off"
    /\ outcome' = NoOutcome
    /\ Emit(<<sse_text, sse_error>>)
    /\ pc' = "error_yielded"
    /\ ending' = "api_error"
    /\ UNCHANGED << max_rounds, messages, base, round, assistant_content, scan, pending,
                    tool_results, elapsed, calls, dispatches, beats >>
    /\ UNCHANGED othervars

\* except anthropic.APIError: the error event
ModelFails ==
    /\ ModelWaitOver
    /\ outcome.kind = "api_error"
    /\ task' = "idle"
    /\ timer' = "off"
    /\ outcome' = NoOutcome
    /\ Emit(<<sse_error>>)
    /\ pc' = "error_yielded"
    /\ ending' = "api_error"
    /\ UNCHANGED << max_rounds, messages, base, round, assistant_content, scan, pending,
                    tool_results, elapsed, calls, dispatches, beats >>
    /\ UNCHANGED othervars

\* api_task.result() re-raises an exception that is not an APIError: no
\* handler, it leaves run_agent
ModelCrashes ==
    /\ ModelWaitOver
    /\ outcome.kind = "exception"
    /\ task' = "idle"
    /\ timer' = "off"
    /\ outcome' = NoOutcome
    /\ pc' = "crashed"
    /\ ending' = "model_exception"
    /\ UNCHANGED << max_rounds, messages, base, round, assistant_content, scan, pending,
                    tool_results, elapsed, stream, calls, dispatches, beats >>
    /\ UNCHANGED othervars

\* the content blocks of the response, ids assigned by the model service
ResponseBlocks(resp, call) ==
    [i \in 1..Len(resp) |->
        IF resp[i].type = "text" THEN TextBlock(60, TRUE)
        ELSE ToolUseBlock(call * 100 + i, resp[i].name, resp[i].keys, TRUE)]

\* mutant: the blocks are collected last first
RECURSIVE SelectType_Reversed(_, _)
SelectType_Reversed(blocks, type) ==
    IF blocks = <<>> THEN <<>>
    ELSE IF Head(blocks).type = type
         THEN SelectType_Reversed(Tail(blocks), type) \o <<Head(blocks)>>
         ELSE SelectType_Reversed(Tail(blocks), type)

RECURSIVE SelectType(_, _)
SelectType(blocks, type) ==
    IF blocks = <<>> THEN <<>>
    ELSE IF Head(blocks).type = type
         THEN <<Head(blocks)>> \o SelectType(Tail(blocks), type)
         ELSE SelectType(Tail(blocks), type)

\* the for loop over tool_use_blocks at tool_blocks[1], up to its yield: the
\* tool_start event
ToolLoop(tool_blocks, results) ==
    /\ pending' = tool_blocks
    /\ tool_results' = results
    /\ Emit(<<sse_tool_start(Head(tool_blocks).name)>>)
    /\ pc' = "tool_start_yielded"

\* mutant: the text blocks of the response are not streamed
Scan_NoText(content, k) ==
    LET tool_use_blocks == SelectType(content, "tool_use")
        msgs == Append(messages, ListMessage("assistant", content))
    IN  /\ assistant_content' = <<>>
        /\ scan' = 0
        /\ messages' = msgs
        /\ IF tool_use_blocks = <<>>
           THEN /\ Emit(<<sse_history(msgs)>>)
                /\ pc' = "history_yielded"
                /\ ending' = "clean"
                /\ UNCHANGED << pending, tool_results >>
           ELSE /\ ToolLoop(tool_use_blocks, <<>>)
                /\ UNCHANGED ending

\* `for block in assistant_content` from block k, up to the next yield: the
\* text event of the next text block (tool_use blocks go to tool_use_blocks
\* on the way); or, the blocks scanned, messages.append(assistant) and the
\* history event or the first tool_start
Scan(content, k) ==
    LET texts == {i \in k..Len(content) : content[i].type = "text"}
        tool_use_blocks == SelectType(content, "tool_use")
        msgs == Append(messages, ListMessage("assistant", content))
    IN  IF texts # {}
        THEN /\ Emit(<<sse_text>>)
             /\ pc' = "text_yielded"
             /\ assistant_content' = content
             /\ scan' = 1 + CHOOSE i \in texts : \A j \in texts : i <= j
             /\ UNCHANGED << messages, pending, tool_results, ending >>
        ELSE /\ assistant_content' = <<>>
             /\ scan' = 0
             /\ messages' = msgs
             /\ IF tool_use_blocks = <<>>
                THEN /\ Emit(<<sse_history(msgs)>>)
                     /\ pc' = "history_yielded"
                     /\ ending' = "clean"
                     /\ UNCHANGED << pending, tool_results >>
                ELSE /\ ToolLoop(tool_use_blocks, <<>>)
                     /\ UNCHANGED ending

\* response = api_task.result(); the scan of its content blocks
ModelResponds(resp) ==
    /\ ModelWaitOver
    /\ outcome = Outcome("response", resp, "")
    /\ task' = "idle"
    /\ timer' = "off"
    /\ outcome' = NoOutcome
    /\ Scan(ResponseBlocks(resp, calls), 1)
    /\ UNCHANGED << max_rounds, base, round, elapsed, calls, dispatches, beats >>
    /\ UNCHANGED othervars

\* the consumer resumes the generator after a text event
ScanResumes ==
    /\ pc = "text_yielded"
    /\ Scan(assistant_content, scan)
    /\ UNCHANGED << max_rounds, base, round, elapsed, calls, dispatches, beats, task,
                    timer, outcome >>
    /\ UNCHANGED othervars

\* task = asyncio.create_task(_execute_tool(tool_name, tool_input)); elapsed
\* = 0; the task is not done: await asyncio.wait({task}, timeout=10)
DispatchTool ==
    /\ pc = "tool_start_yielded"
    /\ dispatches' = dispatches + 1
    /\ task' = "running"
    /\ outcome' = NoOutcome
    /\ elapsed' = 0
    /\ timer' = "armed"
    /\ pc' = "await_tool"
    /\ UNCHANGED << max_rounds, messages, base, round, assistant_content, scan, pending,
                    tool_results, stream, calls, beats, ending >>
    /\ UNCHANGED othervars

\* the report contents that the model's tool calls carry in a run
RunReportContents == {"report one"}

\* what a dispatch does to REPORTS_DIR: _save_report, its two keys read,
\* opens the file for writing, which empties it, and writes the content
\* (write() raises on a content that is not a str: "nonstr"); no other tool
\* writes there
ReportWritten(tool_block, env, filename, fmt, content) ==
    IF /\ tool_block.name = "generate_report"
       /\ {"title", "content"} \subseteq tool_block.keys
       /\ env \in {"ok", "nonstr"}
    THEN rfiles' = [rfiles EXCEPT ![ReportFileName(filename, fmt)] =
                        IF env = "ok" THEN content ELSE ""]
    ELSE UNCHANGED rfiles

\* the _execute_tool task ends, having run under the condition env; a
\* generate_report call has written its file by then
ToolTaskEnds(env) ==
    /\ pc \in {"await_tool", "tool_beat_yielded"}
    /\ task = "running"
    /\ env \in ToolEnvs(Head(pending).name)
    /\ task' = "done"
    /\ outcome' = Outcome("tool", <<>>, env)
    /\ \E filename \in (IF "filename" \in Head(pending).keys THEN ReportFilenames ELSE {""}),
          fmt \in (IF "format" \in Head(pending).keys THEN ReportFormats ELSE {"markdown"}),
          content \in RunReportContents :
            ReportWritten(Head(pending), env, filename, fmt, content)
    /\ UNCHANGED << pc, max_rounds, messages, base, round, assistant_content, scan, pending,
                    tool_results, elapsed, stream, calls, dispatches, beats, ending, timer >>
    /\ UNCHANGED << trimvars, alertvars, groupvars, trailvars, credvars, poolvars, rrun,
                    revents, rmade >>

\* mutant: the keepalive reports the seconds before this interval
ToolHeartbeat_StaleElapsed ==
    /\ pc = "await_tool"
    /\ timer = "fired"
    /\ task = "running"
    /\ elapsed' = elapsed + HeartbeatSeconds
    /\ Emit(<<sse_status(Head(pending).name, elapsed)>>)
    /\ beats' = beats + 1
    /\ timer' = "off"
    /\ pc' = "tool_beat_yielded"
    /\ UNCHANGED << max_rounds, messages, base, round, assistant_content, scan, pending,
                    tool_results, calls, dispatches, ending, task, outcome >>
    /\ UNCHANGED othervars

\* asyncio.wait({task}, timeout=10) timed out: elapsed += 10, the keepalive
ToolHeartbeat ==
    /\ pc = "await_tool"
    /\ timer = "fired"
    /\ task = "running"
    /\ elapsed' = elapsed + HeartbeatSeconds
    /\ Emit(<<sse_status(Head(pending).name, elapsed + HeartbeatSeconds)>>)
    /\ beats' = beats + 1
    /\ timer' = "off"
    /\ pc' = "tool_beat_yielded"
    /\ UNCHANGED << max_rounds, messages, base, round, assistant_content, scan, pending,
                    tool_results, calls, dispatches, ending, task, outcome >>
    /\ UNCHANGED othervars

\* after the keepalive, `while not task.done()`: the next wait
ToolWaitsAgain ==
    /\ pc = "tool_beat_yielded"
    /\ task = "running"
    /\ timer' = "armed"
    /\ pc' = "await_tool"
    /\ UNCHANGED << max_rounds, messages, base, round, assistant_content, scan, pending,
                    tool_results, elapsed, stream, calls, dispatches, beats, ending, task,
                    outcome >>
    /\ UNCHANGED othervars

\* result = task.result(), which re-raises what _execute_tool raised; the
\* tool_result event, whose json.dumps raises TypeError on a result it
\* cannot take.  asyncio.wait returns as soon as the task is done.
ToolCompletes(env) ==
    /\ pc \in {"await_tool", "tool_beat_yielded"}
    /\ task = "done"
    /\ outcome = Outcome("tool", <<>>, env)
    /\ task' = "idle"
    /\ timer' = "off"
    /\ LET tool_block == Head(pending)
           result == _execute_tool(tool_block.name, tool_block.keys, env)
       IN  IF result.raised
           THEN /\ pc' = "crashed"
                /\ ending' = "tool_exception"
                /\ UNCHANGED stream
           ELSE IF ~result.dumps
           THEN /\ pc' = "crashed"
                /\ ending' = "result_exception"
                /\ UNCHANGED stream
           ELSE /\ Emit(<<sse_tool_result(tool_block.name, result)>>)
                /\ pc' = "tool_result_yielded"
                /\ UNCHANGED ending
    /\ UNCHANGED << max_rounds, messages, base, round, assistant_content, scan, pending,
                    tool_results, elapsed, calls, dispatches, beats, outcome >>
    /\ UNCHANGED othervars

\* json.dumps(result): the content of the tool_result block
ResultContent(result) ==
    IF result.form = "list" THEN Content("json", 40, -1, -1, FALSE)
    ELSE IF result.form = "scalar" THEN Content("json", 4, -1, -1, FALSE)
    ELSE Content("dict", 40,
                 IF "rows" \in result.keys THEN 3 ELSE -1,
                 IF "results" \in result.keys THEN 3 ELSE -1,
                 FALSE)

\* mutant: the side-channel event is sent whatever the result holds
SideEvent_Always(tool_name, result) ==
    IF tool_name = "generate_report" THEN <<sse_report>>
    ELSE IF tool_name = "render_chart" THEN <<sse_chart>>
    ELSE <<>>

\* the special event of a tool: report or chart, when the result has no
\* "error" key
SideEvent(tool_name, result) ==
    IF tool_name = "generate_report" /\ "error" \notin result.keys THEN <<sse_report>>
    ELSE IF tool_name = "render_chart" /\ "error" \notin result.keys THEN <<sse_chart>>
    ELSE <<>>

\* tool_results.append(...), then the next tool_use block up to its
\* tool_start or, after the last one, messages.append(user), the next round
\* up to its yield
ToolDone ==
    LET tool_block == Head(pending)
        result == _execute_tool(tool_block.name, tool_block.keys, outcome.env)
        results == Append(tool_results,
                          ToolResultBlock(tool_block.id, result.keys, ResultContent(result)))
    IN  /\ outcome' = NoOutcome
        /\ IF Tail(pending) # <<>>
           THEN /\ ToolLoop(Tail(pending), results)
                /\ UNCHANGED << messages, round, ending >>
           ELSE /\ pending' = <<>>
                /\ tool_results' = <<>>
                /\ messages' = Append(messages, ListMessage("user", results))
                /\ round' = round + 1
                /\ RoundTop(round + 1)

\* the consumer resumes the generator after a tool_result event: the report
\* or chart event, or the rest of the loop body
ToolResultResumes ==
    /\ pc = "tool_result_yielded"
    /\ LET side == SideEvent(Head(pending).name,
                             _execute_tool(Head(pending).name, Head(pending).keys, outcome.env))
       IN  IF side # <<>>
           THEN /\ Emit(side)
                /\ pc' = "side_yielded"
                /\ UNCHANGED << messages, round, pending, tool_results, ending, outcome >>
           ELSE ToolDone
    /\ UNCHANGED << max_rounds, base, assistant_content, scan, elapsed, calls, dispatches,
                    beats, task, timer >>
    /\ UNCHANGED othervars

\* the consumer resumes the generator after a report or chart event
SideEventResumes ==
    /\ pc = "side_yielded"
    /\ ToolDone
    /\ UNCHANGED << max_rounds, base, assistant_content, scan, elapsed, calls, dispatches,
                    beats, task, timer >>
    /\ UNCHANGED othervars

\* mutant: the round-ceiling exit forgets the history event
CeilingResumes_NoHistory ==
    /\ pc = "ceiling_yielded"
    /\ Emit(<<sse_done>>)
    /\ pc' = "done_yielded"
    /\ UNCHANGED << max_rounds, messages, base, round, assistant_content, scan, pending,
                    tool_results, elapsed, calls, dispatches, beats, ending, task, timer,
                    outcome >>
    /\ UNCHANGED othervars

\* after the round-ceiling text: the history event
CeilingResumes ==
    /\ pc = "ceiling_yielded"
    /\ Emit(<<sse_history(messages)>>)
    /\ pc' = "history_yielded"
    /\ UNCHANGED << max_rounds, messages, base, round, assistant_content, scan, pending,
                    tool_results, elapsed, calls, dispatches, beats, ending, task, timer,
                    outcome >>
    /\ UNCHANGED othervars

\* yield sse_done(), after an error event or a history event
YieldDone ==
    /\ pc \in {"error_yielded", "history_yielded"}
    /\ Emit(<<sse_done>>)
    /\ pc' = "done_yielded"
    /\ UNCHANGED << max_rounds, messages, base, round, assistant_content, scan, pending,
                    tool_results, elapsed, calls, dispatches, beats, ending, task, timer,
                    outcome >>
    /\ UNCHANGED othervars

\* the consumer asks for the event after done: return, the generator ends
Return ==
    /\ pc = "done_yielded"
    /\ pc' = "finished"
    /\ UNCHANGED << max_rounds, messages, base, round, assistant_content, scan, pending,
                    tool_results, elapsed, stream, calls, dispatches, beats, ending, task,
                    timer, outcome >>
    /\ UNCHANGED othervars

Next ==
    \/ BuildClientFails
    \/ \E history \in SeedHistories : Start(history)
    \/ IssueModelCall
    \/ \E resp \in Responses : ModelCallReturns(resp)
    \/ \E fault \in ModelFaults : ModelCallRaises(fault)
    \/ TimerFires
    \/ ModelHeartbeat
    \/ ModelSleepsAgain
    \/ ModelFails
    \/ ModelCrashes
    \/ \E resp \in Responses : ModelResponds(resp)
    \/ ScanResumes
    \/ DispatchTool
    \/ \E env \in Envs : ToolTaskEnds(env)
    \/ ToolHeartbeat
    \/ ToolWaitsAgain
    \/ \E env \in Envs : ToolCompletes(env)
    \/ ToolResultResumes
    \/ SideEventResumes
    \/ CeilingResumes
    \/ YieldDone
    \/ Return

Spec == Init /\ [][Next]_vars

(* ------------------------- run_agent, fairness ------------------------ *)

\* a step of the generator itself: the consumer keeps iterating it, so the
\* code between two suspensions runs once it can
GeneratorStep ==
    \/ BuildClientFails
    \/ \E history \in SeedHistories : Start(history)
    \/ IssueModelCall
    \/ ModelHeartbeat
    \/ ModelSleepsAgain
    \/ ModelFails
    \/ ModelCrashes
    \/ \E resp \in Responses : ModelResponds(resp)
    \/ ScanResumes
    \/ DispatchTool
    \/ ToolHeartbeat
    \/ ToolWaitsAgain
    \/ \E env \in Envs : ToolCompletes(env)
    \/ ToolResultResumes
    \/ SideEventResumes
    \/ CeilingResumes
    \/ YieldDone
    \/ Return

\* the model call in flight completes, with a response or a fault
ModelCallCompletes ==
    \/ \E resp \in Responses : ModelCallReturns(resp)
    \/ \E fault \in ModelFaults : ModelCallRaises(fault)

\* the tool dispatch in flight completes, with a result or a fault
ToolDispatchCompletes == \E env \in Envs : ToolTaskEnds(env)

\* run_agent under a consumer that keeps reading, with every model call and
\* every tool dispatch completing and the event loop's timers running
SpecLive ==
    /\ Init
    /\ [][Next]_vars
    /\ WF_vars(GeneratorStep)
    /\ WF_vars(ModelCallCompletes)
    /\ WF_vars(ToolDispatchCompletes)
    /\ WF_vars(TimerFires)

(* ------------------------- _trim_history alone ------------------------ *)

\* tool_result contents of the tool turns: a long dict with few rows and
\* many results, a long string that is not JSON, a long JSON string that is
\* not a dict
TrimContents ==
    { Content("dict", 3000, 2, 7, FALSE),
      Content("opaque", 5000, -1, -1, FALSE),
      Content("json", 5000, -1, -1, FALSE) }

\* what one earlier run leaves in a history: a question and its answer; a
\* question, a tool round and the answer; a question and a tool round cut by
\* the round ceiling
PlainTurn == << Question, ListMessage("assistant", <<TextBlock(60, FALSE)>>) >>

CeilingTurn(c) ==
    << Question,
       ListMessage("assistant", <<ToolUseBlock(1, "query_cloudtrail", {"query"}, FALSE)>>),
       ListMessage("user", <<ToolResultBlock(1, {}, c)>>) >>

ToolTurn(c) == CeilingTurn(c) \o << ListMessage("assistant", <<TextBlock(60, FALSE)>>) >>

\* a question, two tool rounds and the answer
TwoRoundTurn(c1, c2) ==
    << Question,
       ListMessage("assistant", <<ToolUseBlock(1, "query_cloudtrail", {"query"}, FALSE)>>),
       ListMessage("user", <<ToolResultBlock(1, {}, c1)>>),
       ListMessage("assistant", <<ToolUseBlock(2, "query_cloudtrail", {"query"}, FALSE)>>),
       ListMessage("user", <<ToolResultBlock(2, {}, c2)>>),
       ListMessage("assistant", <<TextBlock(60, FALSE)>>) >>

Turns ==
    {PlainTurn, CeilingTurn(Content("dict", 3000, 9, -1, FALSE)),
     TwoRoundTurn(Content("dict", 40, 9, -1, FALSE), Content("dict", 3000, 9, -1, FALSE))}
    \cup {ToolTurn(c) : c \in TrimContents}

\* the turns of the histories that hold a tool result on which json.loads
\* raises ValueError (a long integer literal), among plain turns and turns
\* with a long record
RaisingTurns ==
    {PlainTurn, ToolTurn(Content("dict", 3000, 2, 7, FALSE)),
     ToolTurn(Content("unloadable", 5000, -1, -1, FALSE))}

\* the turns of the histories that hold a long record whose rows is not a
\* list: a number (beside a list of results), a string of 8 characters
OddRowsTurns ==
    {PlainTurn, ToolTurn(RowsContent(3000, "scalar", -1, 7)),
     ToolTurn(RowsContent(3000, "str", 8, -1))}

\* the turns of the histories that hold a long record whose rows is a dict
DictRowsTurns == {PlainTurn, ToolTurn(RowsContent(3000, "object", -1, -1))}

\* the turns of the histories that hold a long record with no rows and
\* results that is not a list, or with neither
BareRecordTurns ==
    {PlainTurn, ToolTurn(Content("dict", 3000, -1, -2, FALSE)),
     ToolTurn(Content("dict", 3000, -1, -1, FALSE))}

\* a question, a tool round whose user message holds the tool_result and a
\* text block, and the answer
MixedTurn(c) ==
    << Question,
       ListMessage("assistant", <<ToolUseBlock(1, "query_cloudtrail", {"query"}, FALSE)>>),
       ListMessage("user", <<ToolResultBlock(1, {}, c), TextBlock(60, FALSE)>>),
       ListMessage("assistant", <<TextBlock(60, FALSE)>>) >>

MixedTurns == {PlainTurn, MixedTurn(Content("dict", 3000, 9, -1, FALSE))}

RECURSIVE HistoriesOf(_, _)
HistoriesOf(turns, n) ==
    IF n = 0 THEN { <<>> }
    ELSE LET H == HistoriesOf(turns, n - 1) IN H \cup {h \o t : h \in H, t \in turns}

TrimHistories ==
    HistoriesOf(Turns, MaxTurns) \cup HistoriesOf(RaisingTurns, MaxTurns)
    \cup HistoriesOf(OddRowsTurns, MaxTurns) \cup HistoriesOf(DictRowsTurns, MaxTurns)
    \cup HistoriesOf(BareRecordTurns, MaxTurns) \cup HistoriesOf(MixedTurns, MaxTurns)

\* budgets around every decision of _trim_history on h: the estimate of h
\* and one less, and the estimate of each suffix of h after the first pass
Budgets(h, slice_error) ==
    {0, _estimate_tokens(h)}
    \cup {_estimate_tokens(h) - 1 : x \in {y \in {1} : _estimate_tokens(h) > 0}}
    \cup {_estimate_tokens(SubSeq(TruncatePass(h, slice_error), k, Len(h))) : k \in 1..Len(h)}

\* the interpreters that tell a history apart: what slicing a dict raises
\* matters only where a long record holds a dict as its rows
BuildsFor(h) ==
    IF \E i \in 1..Len(h) : \E j \in 1..Len(h[i].content) :
            h[i].content[j].content.rowsof = "object"
    THEN SliceOfDict
    ELSE {"TypeError"}

TrimInit ==
    /\ RunIdle
    /\ AlertIdle
    /\ SideIdle
    /\ tpc = "input"
    /\ tinput \in TrimHistories
    /\ tbuild \in BuildsFor(tinput)
    /\ tbudget \in Budgets(tinput, tbuild)
    /\ thistory = tinput
    /\ tresult = <<>>
    /\ tagain = <<>>

\* messages = list(history): the caller's list keeps its messages, and the
\* first pass rewrites their blocks in place
AfterCall(history, max_tokens, slice_error) ==
    IF history = <<>> \/ _estimate_tokens(history) <= max_tokens THEN history
    ELSE TruncatePass(history, slice_error)

\* result = _trim_history(history, max_tokens), or the call raises
TrimCall ==
    /\ tpc = "input"
    /\ tresult' = _trim_history(thistory, tbudget, tbuild).messages
    /\ thistory' = AfterCall(thistory, tbudget, tbuild)
    /\ tpc' = IF _trim_history(thistory, tbudget, tbuild).raised THEN "raised" ELSE "trimmed"
    /\ UNCHANGED << tinput, tbudget, tagain, tbuild >>
    /\ UNCHANGED << runvars, alertvars, sidevars >>

\* _trim_history(result, max_tokens)
TrimAgain ==
    /\ tpc = "trimmed"
    /\ tagain' = _trim_history(tresult, tbudget, tbuild).messages
    /\ tpc' = IF _trim_history(tresult, tbudget, tbuild).raised THEN "reraised" ELSE "retrimmed"
    /\ UNCHANGED << tinput, tbudget, thistory, tresult, tbuild >>
    /\ UNCHANGED << runvars, alertvars, sidevars >>

TrimNext == TrimCall \/ TrimAgain

SpecTrim == TrimInit /\ [][TrimNext]_vars

(* --------------------------- investigate_alert ------------------------ *)

\* cfg alert_api_key: unset, or a key
ConfiguredKeys == {"", "k1"}

\* the X-API-Key header: missing, the configured key, another key
HeaderKeys == {"", "k1", "k2"}

Severities == {"low", "medium", "high", "critical"}

AlertInit ==
    /\ RunIdle
    /\ TrimIdle
    /\ SideIdle
    /\ apc = "request"
    /\ aconfigured \in ConfiguredKeys
    /\ akey \in HeaderKeys
    /\ amax \in 1..MaxAlertRounds
    /\ around = 0
    /\ asubmitted = NoVerdict
    /\ aresult = NoVerdict
    /\ astatus = 0

\* the API-key check: 503 when no key is configured, 401 when the header is
\* missing or differs, else the investigation starts
CheckKey ==
    /\ apc = "request"
    /\ IF aconfigured = "" THEN apc' = "rejected" /\ astatus' = 503
       ELSE IF akey = "" \/ akey # aconfigured THEN apc' = "rejected" /\ astatus' = 401
       ELSE apc' = "investigating" /\ UNCHANGED astatus
    /\ UNCHANGED << aconfigured, akey, amax, around, asubmitted, aresult >>
    /\ UNCHANGED << runvars, trimvars, sidevars >>

\* run_alert_investigation: a round whose response asks for data tools
InvestigationToolRound ==
    /\ apc = "investigating"
    /\ around < amax
    /\ around' = around + 1
    /\ UNCHANGED << apc, aconfigured, akey, amax, asubmitted, aresult, astatus >>
    /\ UNCHANGED << runvars, trimvars, sidevars >>

\* run_alert_investigation: the response calls the verdict tool, which ends
\* the investigation with the submitted verdict
InvestigationSubmits(should_alert, severity) ==
    /\ apc = "investigating"
    /\ around < amax
    /\ around' = around + 1
    /\ asubmitted' = Verdict(should_alert, severity, "submitted")
    /\ aresult' = Verdict(should_alert, severity, "submitted")
    /\ apc' = "returned"
    /\ UNCHANGED << aconfigured, akey, amax, astatus >>
    /\ UNCHANGED << runvars, trimvars, sidevars >>

\* run_alert_investigation: the response holds no tool call and no verdict
\* was submitted: the conservative verdict
InvestigationConcludes(severity) ==
    /\ apc = "investigating"
    /\ around < amax
    /\ around' = around + 1
    /\ aresult' = Verdict(TRUE, severity, "concluded")
    /\ apc' = "returned"
    /\ UNCHANGED << aconfigured, akey, amax, asubmitted, astatus >>
    /\ UNCHANGED << runvars, trimvars, sidevars >>

\* run_alert_investigation: the model call fails: the conservative verdict
InvestigationModelError(severity) ==
    /\ apc = "investigating"
    /\ around < amax
    /\ around' = around + 1
    /\ aresult' = Verdict(TRUE, severity, "model_error")
    /\ apc' = "returned"
    /\ UNCHANGED << aconfigured, akey, amax, asubmitted, astatus >>
    /\ UNCHANGED << runvars, trimvars, sidevars >>

\* mutant: the rounds run out and the verdict is the benign one
InvestigationExhausted_Benign(severity) ==
    /\ apc = "investigating"
    /\ around = amax
    /\ aresult' = Verdict(FALSE, severity, "exhausted")
    /\ apc' = "returned"
    /\ UNCHANGED << aconfigured, akey, amax, around, asubmitted, astatus >>
    /\ UNCHANGED << runvars, trimvars, sidevars >>

\* run_alert_investigation: the rounds run out without a submitted verdict:
\* the conservative verdict
InvestigationExhausted(severity) ==
    /\ apc = "investigating"
    /\ around = amax
    /\ aresult' = Verdict(TRUE, severity, "exhausted")
    /\ apc' = "returned"
    /\ UNCHANGED << aconfigured, akey, amax, around, asubmitted, astatus >>
    /\ UNCHANGED << runvars, trimvars, sidevars >>

\* mutant: the handler lets the exception through
InvestigationRaises_Surfaced ==
    /\ apc = "investigating"
    /\ apc' = "failed"
    /\ astatus' = 500
    /\ UNCHANGED << aconfigured, akey, amax, around, asubmitted, aresult >>
    /\ UNCHANGED << runvars, trimvars, sidevars >>

\* except Exception: whatever run_alert_investigation raised, at any point,
\* the result is the precautionary verdict
InvestigationRaises ==
    /\ apc = "investigating"
    /\ aresult' = Verdict(TRUE, "medium", "exception")
    /\ apc' = "returned"
    /\ UNCHANGED << aconfigured, akey, amax, around, asubmitted, astatus >>
    /\ UNCHANGED << runvars, trimvars, sidevars >>

\* return AlertResponse(**result)
Respond ==
    /\ apc = "returned"
    /\ astatus' = 200
    /\ apc' = "responded"
    /\ UNCHANGED << aconfigured, akey, amax, around, asubmitted, aresult >>
    /\ UNCHANGED << runvars, trimvars, sidevars >>

AlertNext ==
    \/ CheckKey
    \/ InvestigationToolRound
    \/ \E should_alert \in BOOLEAN, severity \in Severities :
            InvestigationSubmits(should_alert, severity)
    \/ \E severity \in Severities : InvestigationConcludes(severity)
    \/ \E severity \in Severities : InvestigationModelError(severity)
    \/ \E severity \in Severities : InvestigationExhausted(severity)
    \/ InvestigationRaises
    \/ Respond

SpecAlert == AlertInit /\ [][AlertNext]_vars

(* --------------------------- stream helpers --------------------------- *)

Types == [i \in 1..Len(stream) |-> stream[i].type]

Count(type) == Cardinality({i \in 1..Len(stream) : stream[i].type = type})

\* run_agent returned, or an exception left it
RunOver == pc \in {"finished", "crashed"}

\* the stream ends with the given event types
EndsWith(types) ==
    /\ Len(stream) >= Len(types)
    /\ \A k \in 1..Len(types) : stream[Len(stream) - Len(types) + k].type = types[k]

HasToolUse(m) == ~m.plain /\ \E j \in 1..Len(m.content) : m.content[j].type = "tool_use"

\* the rounds of this run whose response requested a tool call
ToolRounds ==
    Cardinality({i \in (base + 1)..Len(messages) :
                    messages[i].role = "assistant" /\ HasToolUse(messages[i])})

(* ------------------------------ claims -------------------------------- *)

\* C1: every run that is over, whatever the responses, tool outcomes and
\* faults were, has emitted exactly one `done` event, and it is the last
\* event of the stream.
C1_DoneOnceLast ==
    RunOver => (Count("done") = 1 /\ EndsWith(<<"done">>))

\* C2: a run never ends without an `error` or a `history` event having been
\* emitted before `done`.
C2_NeverSilent ==
    RunOver =>
        \E i \in 1..Len(stream) :
            /\ stream[i].type \in {"error", "history"}
            /\ \E j \in (i + 1)..Len(stream) : stream[j].type = "done"

\* C3: a run that ends cleanly or at the round ceiling emits `history`
\* exactly once; a `history` event is always immediately followed by `done`;
\* a run that emits `error` emits no `history`.
C3_HistoryOnce ==
    /\ [](/\ (pc = "finished" /\ ending \in {"clean", "ceiling"}) =>
                (Count("history") = 1 /\ EndsWith(<<"history", "done">>))
          /\ \A i \in 1..Len(stream) :
                stream[i].type = "history" =>
                    IF i < Len(stream) THEN stream[i + 1].type = "done"
                    ELSE pc = "history_yielded"
          /\ Count("error") > 0 => Count("history") = 0)
    /\ [][(pc = "history_yielded") => (stream' = Append(stream, sse_done))]_vars

C3_Witness ==
    /\ pc = "finished"
    /\ ending = "ceiling"
    /\ Count("history") = 1
    /\ Count("tool_result") > 0

\* C4: a run never issues more than max_rounds model calls.
C4_RoundBound == calls <= max_rounds

C4_Witness ==
    /\ pc = "finished"
    /\ ending = "ceiling"
    /\ max_rounds = MaxRounds
    /\ calls = max_rounds

\* C5: when each of max_rounds consecutive responses requested a tool call,
\* the run made exactly max_rounds model calls and its stream ends with the
\* round-ceiling `text`, then `history`, then `done`.
C5_CeilingEnding ==
    (RunOver /\ ToolRounds = max_rounds) =>
        (calls = max_rounds /\ EndsWith(<<"text", "history", "done">>))

\* C6: in the Conversation, every assistant message of this run that holds
\* ToolUse blocks and has a successor is followed by a user message made of
\* ToolResult blocks only, exactly one for each ToolUse id of the assistant
\* message and none for any other id; and a model call is never issued on a
\* Conversation whose last assistant message has unanswered ToolUse blocks.
ToolUseIds(m) == {m.content[j].id : j \in {k \in 1..Len(m.content) : m.content[k].type = "tool_use"}}

Correlated(a, u) ==
    /\ u.role = "user"
    /\ ~u.plain
    /\ \A j \in 1..Len(u.content) :
            /\ u.content[j].type = "tool_result"
            /\ u.content[j].id \in ToolUseIds(a)
    /\ \A id \in ToolUseIds(a) :
            Cardinality({j \in 1..Len(u.content) : u.content[j].id = id}) = 1

C6_ToolCorrelation ==
    /\ \A i \in (base + 1)..Len(messages) :
            (messages[i].role = "assistant" /\ HasToolUse(messages[i]) /\ i < Len(messages))
                => Correlated(messages[i], messages[i + 1])
    /\ pc \in {"status_yielded", "await_model", "model_beat_yielded"} =>
            ~(messages[Len(messages)].role = "assistant" /\ HasToolUse(messages[Len(messages)]))

C6_Witness ==
    \E i \in (base + 1)..(Len(messages) - 1) :
        /\ messages[i].role = "assistant"
        /\ Cardinality(ToolUseIds(messages[i])) = 2
        /\ Len(messages[i + 1].content) = 2

\* C7: tool dispatch is total: no exception of _execute_tool ever reaches
\* the orchestration loop, whatever the tool name, the input and the
\* behaviour of the downstream capability.
C7_DispatchTotal == ending # "tool_exception"

\* C8: a failed tool dispatch does not abort the run: once the wait for a
\* dispatch is over, every dispatched tool has its `tool_result` event and
\* the loop is still running or has ended with `done`, without `error`
\* unless a later model call failed.
C8_ToolFailureNotFatal ==
    (dispatches > 0 /\ pc \notin {"await_tool", "tool_beat_yielded"}) =>
        /\ Count("tool_result") = dispatches
        /\ (pc = "crashed" => ending = "model_exception")
        /\ (Count("error") > 0 => ending = "api_error")

\* a model call of the run has raised, whatever the exception
ModelFaulted == ending \in {"api_error", "model_exception"}

\* C9: after a model-call fault the run is over: the handler yields
\* `error`, then `done`, and returns, so the stream ends with `error`,
\* `done`, holds one `error` and no `history`, and no model call, tool
\* dispatch or other event follows.
C9_ModelFaultFatal ==
    /\ [](ModelFaulted =>
            /\ pc \in {"error_yielded", "done_yielded", "finished"}
            /\ IF pc = "error_yielded" THEN EndsWith(<<"error">>)
               ELSE EndsWith(<<"error", "done">>)
            /\ Count("error") = 1
            /\ Count("history") = 0)
    /\ [][ModelFaulted =>
            /\ calls' = calls
            /\ dispatches' = dispatches
            /\ \/ stream' = stream
               \/ pc = "error_yielded" /\ stream' = Append(stream, sse_done)]_vars

\* C10 as stated: when the first model call fails the stream is exactly
\* [error, done].
C10_ExactlyErrorDone ==
    (RunOver /\ ModelFaulted /\ calls = 1) => Types = <<"error", "done">>

\* C10 amended: when the first model call fails with an anthropic.APIError
\* the stream is the `status` events of that call (the one emitted when the
\* call is issued and the keepalives), then `error`, then `done`, and
\* nothing else.
C10_StatusErrorDone ==
    (pc = "finished" /\ ending = "api_error" /\ calls = 1) =>
        /\ Len(stream) >= 3
        /\ EndsWith(<<"error", "done">>)
        /\ \A i \in 1..(Len(stream) - 2) : stream[i].type = "status"
        /\ stream[1].elapsed = 0

C10_Witness ==
    /\ pc = "finished"
    /\ ending = "api_error"
    /\ calls = 1
    /\ Len(stream) = 4

\* the stream is the events of the given types, then history, then done
OnlyBeforeHistoryDone(types) ==
    /\ EndsWith(<<"history", "done">>)
    /\ \A i \in 1..(Len(stream) - 2) : stream[i].type \in types

\* C11 as stated: when the first response holds only text blocks the stream
\* is zero or more `text` events, then `history`, then `done`.
C11_TextHistoryDone ==
    (pc = "finished" /\ ending = "clean" /\ calls = 1) => OnlyBeforeHistoryDone({"text"})

\* C11 amended: when the first response holds only text blocks the stream is
\* the `status` events of the one model call, then one `text` event for each
\* text block, then `history`, then `done`; there is no tool_start and no
\* tool_result, and exactly one model call was made.
C11_StatusTextHistoryDone ==
    (pc = "finished" /\ calls = 1 /\ ~HasToolUse(messages[Len(messages)])
        /\ messages[Len(messages)].role = "assistant") =>
        /\ ending = "clean"
        /\ OnlyBeforeHistoryDone({"status", "text"})
        /\ stream[1].type = "status"
        /\ \A i \in 1..(Len(stream) - 1) :
                (stream[i].type = "text" => stream[i + 1].type # "status")
        /\ Count("text") = Len(messages[Len(messages)].content)
        /\ dispatches = 0

C11_Witness ==
    /\ pc = "finished"
    /\ ending = "clean"
    /\ calls = 1
    /\ Count("text") = 1
    /\ Count("status") = 2

\* the model calls issued before event i of the stream
CallsBefore(i) ==
    Cardinality({j \in 1..i : stream[j].type = "status" /\ stream[j].tool = ""
                                /\ stream[j].elapsed = 0})

\* C12: after a round in which a tool call succeeded, and with the ceiling
\* not reached, a further model call is issued: a run that is over has made
\* a model call after every round below the ceiling that reported an
\* error-free tool result.
C12_NextCallAfterToolRound ==
    RunOver =>
        \A i \in 1..Len(stream) :
            (stream[i].type = "tool_result" /\ ~stream[i].err /\ CallsBefore(i) < max_rounds)
                => calls > CallsBefore(i)

\* the index of the first event after i that is not a keepalive, or 0
RECURSIVE NextNonStatus(_)
NextNonStatus(i) ==
    IF i >= Len(stream) THEN 0
    ELSE IF stream[i + 1].type # "status" THEN i + 1
    ELSE NextNonStatus(i + 1)

\* the tool_use blocks of this run's assistant messages that name no tool
UnknownToolUses ==
    {<<i, j>> \in ((base + 1)..Len(messages)) \X (1..3) :
        /\ messages[i].role = "assistant"
        /\ j <= Len(messages[i].content)
        /\ messages[i].content[j].type = "tool_use"
        /\ messages[i].content[j].name \notin KnownTools}

\* C19: a tool_use block with a name outside the known set never raises: its
\* dispatch is announced by `tool_start`, its outcome is the payload
\* {error: "Unknown tool: <name>"} reported by `tool_result`, and the user
\* message of the round holds a ToolResult block with the block's id and
\* that payload.
C19_UnknownToolReported ==
    /\ \A i \in 1..Len(stream) :
            (stream[i].type = "tool_start" /\ stream[i].tool \notin KnownTools) =>
                IF NextNonStatus(i) = 0
                THEN /\ pc \in {"tool_start_yielded", "await_tool", "tool_beat_yielded"}
                     /\ Head(pending).name = stream[i].tool
                ELSE LET e == stream[NextNonStatus(i)]
                     IN  /\ e.type = "tool_result"
                         /\ e.tool = stream[i].tool
                         /\ e.err
                         /\ e.detail = <<"Unknown tool: ", stream[i].tool>>
    /\ \A i \in 1..Len(stream) :
            (stream[i].type = "tool_result" /\ stream[i].tool \notin KnownTools) =>
                \E k \in 1..(i - 1) :
                    /\ stream[k].type = "tool_start"
                    /\ stream[k].tool = stream[i].tool
                    /\ NextNonStatus(k) = i
    /\ \A u \in UnknownToolUses :
            u[1] < Len(messages) =>
                \E j \in 1..Len(messages[u[1] + 1].content) :
                    LET b == messages[u[1] + 1].content[j]
                    IN  /\ b.type = "tool_result"
                        /\ b.id = messages[u[1]].content[u[2]].id
                        /\ b.keys = {"error"}
    /\ ending \in {"tool_exception", "result_exception"} => Head(pending).name \in KnownTools

C19_Witness ==
    /\ UnknownToolUses # {}
    /\ \E u \in UnknownToolUses : u[1] < Len(messages)
    /\ \E i \in 1..Len(stream) :
            /\ stream[i].type = "tool_result"
            /\ stream[i].detail = <<"Unknown tool: ", "no_such_tool">>

\* C20: a keepalive `status` event is emitted for each 10 second interval an
\* operation is in flight: the k-th keepalive of a model call or of a tool
\* dispatch directly follows the event that opened the operation (k = 1) or
\* its previous keepalive, and carries 10 * k elapsed seconds; when the 10
\* seconds are over and the operation still runs, the generator's next step
\* emits the keepalive; and once the operation has completed no keepalive is
\* emitted for it.
C20_Heartbeats ==
    /\ [](\A i \in 1..Len(stream) :
            (stream[i].type = "status" /\ stream[i].elapsed > 0) =>
                /\ i > 1
                /\ IF stream[i].tool = ""
                   THEN /\ stream[i - 1].type = "status"
                        /\ stream[i - 1].tool = ""
                        /\ stream[i].elapsed = stream[i - 1].elapsed + HeartbeatSeconds
                   ELSE \/ /\ stream[i - 1].type = "tool_start"
                           /\ stream[i - 1].tool = stream[i].tool
                           /\ stream[i].elapsed = HeartbeatSeconds
                        \/ /\ stream[i - 1].type = "status"
                           /\ stream[i - 1].tool = stream[i].tool
                           /\ stream[i - 1].elapsed > 0
                           /\ stream[i].elapsed = stream[i - 1].elapsed + HeartbeatSeconds)
    /\ [](task = "running" => elapsed = HeartbeatSeconds *
                Cardinality({i \in 1..Len(stream) :
                    /\ stream[i].type = "status" /\ stream[i].elapsed > 0
                    /\ \A j \in i..Len(stream) : stream[j].type = "status"}))
    /\ [][(timer = "fired" /\ task = "running" /\ pc' # pc) =>
            (stream' = Append(stream,
                              sse_status(IF pc = "await_model" THEN "" ELSE Head(pending).name,
                                         elapsed + HeartbeatSeconds)))]_vars
    /\ [][(task # "running") =>
            \A i \in (Len(stream) + 1)..Len(stream') :
                ~(stream'[i].type = "status" /\ stream'[i].elapsed > 0)]_vars

C20_Witness ==
    /\ task = "done"
    /\ pc = "tool_beat_yielded"
    /\ stream[Len(stream)].type = "status"
    /\ stream[Len(stream)].elapsed = 2 * HeartbeatSeconds

(* ------------------------ claims on _trim_history --------------------- *)

\* the last n messages of a history
LastOf(h, n) == SubSeq(h, Len(h) - n + 1, Len(h))

\* the call of _trim_history returned
TrimReturns == tpc \in {"trimmed", "retrimmed", "reraised"}

\* the call removed messages
Evicted == TrimReturns /\ Len(tresult) < Len(tinput)

\* C13: for every history of at least 4 messages and every budget, the last
\* 4 messages of the input are the last 4 messages of the result, unaltered.
C13_LastFourKept ==
    (TrimReturns /\ Len(tinput) >= 4) =>
        /\ Len(tresult) >= 4
        /\ LastOf(tresult, 4) = LastOf(tinput, 4)

\* C14: _trim_history is idempotent: trimming its result again with the same
\* budget gives that result, also when the result is still over the budget
\* and when the first pass rewrote tool_result contents.
C14_TrimIdempotent ==
    tpc \in {"retrimmed", "reraised"} => (tpc = "retrimmed" /\ tagain = tresult)

C14_Witness ==
    /\ tpc = "retrimmed"
    /\ Evicted
    /\ Len(tresult) > 4
    /\ \E i \in 1..Len(tresult) : \E j \in 1..Len(tresult[i].content) :
            tresult[i].content[j].content.marked

\* C15 as stated: after a trim in which eviction occurred, the number of
\* remaining messages minus 2 is even, or exactly 2 messages remain.
C15_PairwiseEviction ==
    Evicted => ((Len(tresult) - 2) % 2 = 0 \/ Len(tresult) = 2)

\* C15 amended: eviction removes groups from the front, each the oldest
\* message, the assistant message after it and the user message of
\* tool_result blocks only after that, where present (1 to 3 messages).  So
\* after a trim in which eviction occurred the result is a suffix of the
\* history as the first pass left it, it does not begin with a user message
\* of tool_result blocks only, it fits the budget or has at most 2 messages,
\* and the suffix that is longer by the last group did neither.
C15_EvictionGroups ==
    Evicted =>
        /\ tresult = LastOf(thistory, Len(tresult))
        /\ tresult # <<>> => ~IsOrphanToolResult(tresult[1])
        /\ Len(tresult) <= 2 \/ _estimate_tokens(tresult) <= tbudget
        /\ \E d \in 1..3 :
                /\ Len(tresult) + d <= Len(thistory)
                /\ Len(tresult) + d > 2
                /\ _estimate_tokens(LastOf(thistory, Len(tresult) + d)) > tbudget

C15_Witness ==
    /\ Evicted
    /\ Len(tinput) = 6
    /\ Len(tresult) = 3
    /\ tresult[1].role = "assistant"

\* C16: when the estimate of the history is at most the budget,
\* _trim_history returns the history unchanged: the same messages in the
\* same order with the same contents, nothing truncated, no marker added.
C16_UnderBudgetUnchanged ==
    (TrimReturns /\ _estimate_tokens(tinput) <= tbudget) =>
        (tresult = tinput /\ thistory = tinput)

C16_Witness ==
    /\ tpc = "trimmed"
    /\ _estimate_tokens(tinput) = tbudget
    /\ TruncatePass(tinput, tbuild) # tinput
    /\ tresult = tinput

(* ----------------------- claims on investigate_alert ------------------ *)

\* C17: an investigation that runs out of rounds, or ends in a model-call
\* error, without the verdict tool having been called returns a verdict
\* whose should_alert is true, and the request answers with that verdict.
C17_DefaultsToAlert ==
    (aresult.via \in {"exhausted", "model_error"}) =>
        /\ ~asubmitted.given
        /\ apc \in {"returned", "responded"}
        /\ aresult.given
        /\ aresult.should_alert
        /\ apc = "responded" => astatus = 200

C17_Witness ==
    /\ apc = "responded"
    /\ aresult.via = "exhausted"
    /\ around = amax
    /\ amax = MaxAlertRounds
    /\ aresult.should_alert

\* C18: a request that has passed the API-key check always yields a verdict
\* record and never a failure: a request that is over was either rejected by
\* the key check or answered 200 with a verdict, and an exception of the
\* investigation gives the verdict should_alert = true, severity medium.
C18_AlwaysVerdict ==
    /\ apc \in {"request", "rejected", "investigating", "returned", "responded"}
    /\ apc = "rejected" <=> astatus \in {401, 503}
    /\ apc = "rejected" => (aconfigured = "" \/ akey # aconfigured)
    /\ apc = "responded" <=> astatus = 200
    /\ apc \in {"returned", "responded"} => aresult.given
    /\ aresult.via = "exception" => (aresult.should_alert /\ aresult.severity = "medium")

C18_Witness ==
    /\ apc = "responded"
    /\ astatus = 200
    /\ aresult.via = "exception"
    /\ around > 0

(* ------------------- claims on run_agent, continued -------------------- *)

\* C23: the heartbeat does not block the wait, for the model call and for
\* tool dispatches alike: once the operation is complete, the step the
\* orchestrator takes handles its result; it does not first sit out the rest
\* of the 10 second interval.
C23_WaitNotBlocking ==
    (task = "done" /\ pc \in {"await_model", "await_tool"}) => ENABLED GeneratorStep

\* a serialized block is the block, SDK-only fields of a tool_use aside
SameBlock(a, b) == [a EXCEPT !.sdk = FALSE] = [b EXCEPT !.sdk = FALSE]

SameMessage(a, b) ==
    /\ a.role = b.role
    /\ a.plain = b.plain
    /\ a.len = b.len
    /\ Len(a.content) = Len(b.content)
    /\ \A j \in 1..Len(a.content) : SameBlock(a.content[j], b.content[j])

\* what the seeds are after the trim at the start of a run
TrimmedSeeds ==
    UNION {{_trim_history(seed, DefaultMaxTokens, e).messages :
                seed \in {h \in SeedHistories : ~_trim_history(h, DefaultMaxTokens, e).raised}}
           : e \in SliceOfDict}

\* C21: the `history` event carries the full Conversation at termination,
\* in order: the trimmed seed, the question, and every assistant message and
\* tool-result user message the run appended (one per handled response, one
\* per completed tool round); no message is missing and none is added.
C21_HistoryIsConversation ==
    \A i \in 1..Len(stream) :
        stream[i].type = "history" =>
            LET h == stream[i].msgs
            IN  /\ Len(h) = Len(messages)
                /\ \A k \in 1..Len(messages) : SameMessage(h[k], messages[k])
                /\ Len(h) = base + calls + round
                /\ SubSeq(h, 1, base - 1) \in {_serialize_messages(t) : t \in TrimmedSeeds}
                /\ h[base] = Question
                /\ \A k \in (base + 1)..Len(h) :
                        h[k].role = (IF (k - base) % 2 = 1 THEN "assistant" ELSE "user")

C21_Witness ==
    /\ Count("history") = 1
    /\ ending = "clean"
    /\ base = 4
    /\ round = 1
    /\ Len(messages) = 7

IsToolEvent(e) == e.type \in {"tool_start", "tool_result"}

IsTextEvent(e) == e.type = "text"

\* the names of the blocks of one type in the responses of this run, in
\* message and block order
RECURSIVE RequestedFrom(_, _, _)
RequestedFrom(i, j, type) ==
    IF i > Len(messages) THEN <<>>
    ELSE IF messages[i].plain \/ j > Len(messages[i].content)
         THEN RequestedFrom(i + 1, 1, type)
    ELSE IF messages[i].content[j].type = type
         THEN <<messages[i].content[j].name>> \o RequestedFrom(i, j + 1, type)
         ELSE RequestedFrom(i, j + 1, type)

\* C22: within a round the events come in this order: the `text` events of
\* the response, then for each tool_use block in the order received its
\* `tool_start` and then its `tool_result`; a `tool_start` is never emitted
\* before the `tool_result` of the previous tool call, so at most one
\* dispatch is in flight.
C22_RoundEventOrder ==
    LET tool_events == SelectSeq(stream, IsToolEvent)
        requested == RequestedFrom(base + 1, 1, "tool_use")
        announced == IF pc = "tool_start_yielded" THEN 1 ELSE 0
        in_flight == IF \/ pc \in {"await_tool", "tool_beat_yielded"}
                        \/ ending \in {"tool_exception", "result_exception"}
                     THEN 1 ELSE 0
    IN  /\ Len(tool_events) = 2 * dispatches + announced - in_flight
        /\ dispatches <= Len(requested)
        /\ \A k \in 1..Len(tool_events) :
                /\ tool_events[k].type = (IF k % 2 = 1 THEN "tool_start" ELSE "tool_result")
                /\ tool_events[k].tool = requested[(k + 1) \div 2]
        /\ \A i \in 2..Len(stream) :
                stream[i].type = "text" =>
                    \/ stream[i - 1].type \in {"status", "text"}
                    \/ /\ ending = "ceiling"
                       /\ \A j \in (i + 1)..Len(stream) : stream[j].type \in {"history", "done"}
        /\ Len(SelectSeq(stream, IsTextEvent)) =
                Len(RequestedFrom(base + 1, 1, "text"))
                + Len(SelectType(SubSeq(assistant_content, 1, scan - 1), "text"))
                + (IF ending = "ceiling" THEN 1 ELSE 0)

C22_Witness ==
    /\ dispatches = 2
    /\ Count("tool_result") = 2
    /\ Count("text") = 1
    /\ \E i \in 1..(Len(stream) - 2) :
            /\ stream[i].type = "text"
            /\ stream[i + 1].type = "tool_start"
            /\ stream[i + 1].tool = "generate_report"

SideChannel(tool_name) ==
    IF tool_name = "generate_report" THEN "report"
    ELSE IF tool_name = "render_chart" THEN "chart"
    ELSE "none"

\* C24: a `report` or `chart` event is emitted only directly after the
\* `tool_result` of that same tool call and only when the result is not an
\* error payload; a failed report or chart call gives no side-channel event
\* and a successful one gives exactly one.
C24_SideChannel ==
    \A i \in 1..Len(stream) :
        /\ stream[i].type \in {"report", "chart"} =>
                /\ i > 1
                /\ stream[i - 1].type = "tool_result"
                /\ ~stream[i - 1].err
                /\ SideChannel(stream[i - 1].tool) = stream[i].type
        /\ (stream[i].type = "tool_result" /\ SideChannel(stream[i].tool) # "none") =>
                IF stream[i].err
                THEN i = Len(stream) \/ stream[i + 1].type \notin {"report", "chart"}
                ELSE IF i = Len(stream) THEN pc = "tool_result_yielded"
                ELSE /\ stream[i + 1].type = SideChannel(stream[i].tool)
                     /\ i + 1 < Len(stream) =>
                            stream[i + 2].type \notin {"report", "chart"}

C24_Witness ==
    /\ Count("chart") = 1
    /\ Count("report") = 1
    /\ \E i \in 1..Len(stream) :
            stream[i].type = "tool_result" /\ stream[i].tool = "render_chart" /\ stream[i].err

\* the Conversation is an extension of `before` by one message
AppendsOne(before, after) ==
    /\ Len(after) = Len(before) + 1
    /\ SubSeq(after, 1, Len(before)) = before

\* C25: during a run the Conversation is append-only.  It starts as the
\* trimmed seed followed by the question; each handled response appends
\* exactly one assistant message and each completed tool round exactly one
\* user message of tool results; nothing else changes it, so the Conversation
\* of a model call is a prefix of that of the next, and it is not trimmed
\* again.
C25_AppendOnly ==
    /\ []((pc # "start" /\ ending \notin {"config_error", "trim_exception"}) =>
            /\ SubSeq(messages, 1, base - 1) \in TrimmedSeeds
            /\ messages[base] = Question
            /\ Len(messages) = base + round
                    + (IF pc \in {"await_model", "model_beat_yielded", "text_yielded"}
                          \/ ModelFaulted
                       THEN calls - 1 ELSE calls))
    /\ [][(pc # "start") =>
            \/ messages' = messages
            \/ /\ AppendsOne(messages, messages')
               /\ pc \in {"await_model", "model_beat_yielded", "text_yielded"}
               /\ calls' = calls
               /\ messages'[Len(messages')].role = "assistant"
            \/ /\ AppendsOne(messages, messages')
               /\ pc \in {"tool_result_yielded", "side_yielded"}
               /\ round' = round + 1
               /\ Correlated(messages[Len(messages)], messages'[Len(messages')])]_vars

C25_Witness ==
    /\ pc = "await_model"
    /\ calls = 2
    /\ base = 4
    /\ Len(messages) = base + 2

\* strict alternation of roles, the first message a user message
Alternates(msgs) ==
    \A i \in 1..Len(msgs) : msgs[i].role = (IF i % 2 = 1 THEN "user" ELSE "assistant")

\* C30: every Conversation passed to a model call starts with a user
\* message and strictly alternates user and assistant roles, also when the
\* run is seeded with the history of a prior run and when the trim evicted
\* messages of the seed.
C30_RolesAlternate == pc = "await_model" => Alternates(messages)

(* ------------------- claims on _trim_history, continued ---------------- *)

\* C26: after _trim_history(h, B) either the estimate of the result is at
\* most B or at most 2 messages remain; and no message is evicted when the
\* history, after the truncation pass, already fits B.
C26_BudgetOrTwo ==
    TrimReturns =>
        /\ _estimate_tokens(tresult) <= tbudget \/ Len(tresult) <= 2
        /\ _estimate_tokens(thistory) <= tbudget => Len(tresult) = Len(tinput)

C26_Witness ==
    /\ tpc = "trimmed"
    /\ _estimate_tokens(tinput) > tbudget
    /\ thistory # tinput
    /\ _estimate_tokens(thistory) <= tbudget
    /\ tresult = thistory

\* the histories the eviction loop holds after each of its steps
RECURSIVE AfterSteps(_, _)
AfterSteps(msgs, max_tokens) ==
    IF Len(msgs) > 2 /\ _estimate_tokens(msgs) > max_tokens
    THEN {EvictStep(msgs)} \cup AfterSteps(EvictStep(msgs), max_tokens)
    ELSE {}

\* C27: after every eviction step the oldest remaining message is not a
\* user message made of tool_result blocks only: an orphaned tool-result
\* turn goes with the pair before it.
C27_NoOrphanHead ==
    TrimReturns =>
        /\ \A s \in AfterSteps(thistory, tbudget) :
                s # <<>> => ~IsOrphanToolResult(s[1])
        /\ Evicted => tresult \in AfterSteps(thistory, tbudget)

C27_Witness ==
    /\ tpc = "trimmed"
    /\ Cardinality(AfterSteps(thistory, tbudget)) >= 2
    /\ \E s \in AfterSteps(thistory, tbudget) :
            /\ Len(s) >= 2
            /\ s[1].role = "assistant"
            /\ HasToolUse(s[1])
            /\ IsOrphanToolResult(s[2])

\* the tool_result blocks of the messages before the last 4, as <<i, j>>
OlderResults(h) ==
    {<<i, j>> \in (1..(Len(h) - 4)) \X (1..2) :
        /\ ~h[i].plain
        /\ j <= Len(h[i].content)
        /\ h[i].content[j].type = "tool_result"}

HasRowsOrResults(c) == c.kind = "dict" /\ (c.rowsof # "none" \/ c.results # -1)

\* C28 as stated: when the history is over budget, every tool_result of a
\* message before the last 4 whose content is a record with `rows` or
\* `results` has that field cut to 5 elements and carries the marker, and an
\* opaque string longer than 2000 is cut to 2000 plus the trailing marker.
C28_RecordsCut ==
    (TrimReturns /\ _estimate_tokens(tinput) > tbudget) =>
        \A p \in OlderResults(tinput) :
            LET c == tinput[p[1]].content[p[2]].content
                d == thistory[p[1]].content[p[2]].content
            IN  /\ HasRowsOrResults(c) =>
                        (d.kind = "dict" /\ d.rows <= 5 /\ d.results <= 5 /\ d.marked)
                /\ (c.kind = "opaque" /\ c.n > 2000) => d.n = 2000 + 15

\* the call meets, before the last 4 messages, a long string that json.loads
\* cannot load, or on an interpreter from Python 3.12 a long record whose
\* rows is a dict
MeetsUncaught(h, slice_error) ==
    \E p \in OlderResults(h) :
        LET c == h[p[1]].content[p[2]].content
        IN  /\ StrLen(c) > 2000
            /\ \/ c.kind = "unloadable"
               \/ c.kind = "dict" /\ c.rowsof = "object" /\ slice_error = "KeyError"

\* C28 amended: when the history is over budget, a tool_result of a message
\* before the last 4 is rewritten only if its content is a string longer
\* than 2000 characters.  If that string is a JSON record, a `rows` that is
\* a list is cut to its first 5 elements and a `rows` that is a string to
\* its first 5 characters, a `results` that is a list is cut to its first 5
\* elements, and the marker is set when one of those fields was there to
\* cut; a record with neither `rows` nor a list `results`, and JSON that is
\* not a record, stay as they are.  If it is not JSON, or if it is a record
\* whose `rows` is a number, null or a boolean (or a dict, before Python
\* 3.12), it becomes its first 2000 characters plus "... [truncated]", no
\* longer a record, whatever its `results` holds.  Contents of at most 2000
\* characters, the last 4 messages and every other block are untouched, and
\* the result holds the messages so rewritten.  The call returns unless one
\* of those long strings makes json.loads raise something other than
\* JSONDecodeError (an integer literal of more than 4300 digits, nesting
\* beyond the recursion limit) or is a record whose `rows` is a dict on
\* Python 3.12 or later (KeyError): then it raises.
C28_LongContentsCut ==
    /\ (TrimReturns /\ _estimate_tokens(tinput) > tbudget) =>
            /\ Len(thistory) = Len(tinput)
            /\ \A i \in 1..Len(tinput) :
                    /\ thistory[i].role = tinput[i].role
                    /\ i > Len(tinput) - 4 => thistory[i] = tinput[i]
                    /\ tinput[i].plain => thistory[i] = tinput[i]
                    /\ Len(thistory[i].content) = Len(tinput[i].content)
            /\ \A i \in 1..(Len(tinput) - 4) : \A j \in 1..Len(tinput[i].content) :
                    LET b == tinput[i].content[j]
                        c == b.content
                        d == thistory[i].content[j].content
                    IN  /\ thistory[i].content[j] = [b EXCEPT !.content = d]
                        /\ (b.type # "tool_result" \/ StrLen(c) <= 2000) => d = c
                        /\ (b.type = "tool_result" /\ StrLen(c) > 2000) =>
                                CASE c.kind = "dict" /\ c.rowsof \in {"scalar", "object"} ->
                                        /\ d.kind = "cut"
                                        /\ StrLen(d) = 2000 + 15
                                        /\ [d EXCEPT !.kind = "dict"] = c
                                  [] c.kind = "dict" /\ c.rowsof \in {"none", "list", "str"} ->
                                        /\ d.kind = "dict" /\ d.n = c.n /\ d.rowsof = c.rowsof
                                        /\ d.rows = (IF c.rows > 5 THEN 5 ELSE c.rows)
                                        /\ d.results = (IF c.results > 5 THEN 5 ELSE c.results)
                                        /\ d.marked = (c.marked \/ c.rowsof # "none"
                                                                \/ c.results >= 0)
                                  [] c.kind = "opaque" ->
                                        d = [c EXCEPT !.n = 2000 + 15]
                                  [] OTHER -> d = c
            /\ tresult = LastOf(thistory, Len(tresult))
            /\ ~MeetsUncaught(tinput, tbuild)
    /\ tpc # "input" =>
            (tpc = "raised" <=>
                (_estimate_tokens(tinput) > tbudget /\ MeetsUncaught(tinput, tbuild)))

\* a short record kept, a long one cut to 5 rows and marked, and a record
\* whose rows is a number cut as a string
C28_Witness ==
    \/ /\ tpc = "trimmed"
       /\ _estimate_tokens(tinput) > tbudget
       /\ Len(tresult) = Len(tinput)
       /\ \E p \in OlderResults(tinput), q \in OlderResults(tinput) :
               /\ tresult[p[1]].content[p[2]].content = Content("dict", 40, 9, -1, FALSE)
               /\ tresult[q[1]].content[q[2]].content = Content("dict", 3000, 5, -1, TRUE)
    \/ /\ tpc = "trimmed"
       /\ _estimate_tokens(tinput) > tbudget
       /\ Len(tresult) = Len(tinput)
       /\ \E p \in OlderResults(tinput) :
               /\ tinput[p[1]].content[p[2]].content = RowsContent(3000, "scalar", -1, 7)
               /\ tresult[p[1]].content[p[2]].content.kind = "cut"

\* every user message with tool_result blocks directly follows an assistant
\* message holding the tool_use blocks with the same ids
WellPaired(h) ==
    \A i \in 1..Len(h) :
        (~h[i].plain /\ \E j \in 1..Len(h[i].content) : h[i].content[j].type = "tool_result")
            => /\ i > 1
               /\ h[i - 1].role = "assistant"
               /\ \A j \in 1..Len(h[i].content) :
                    h[i].content[j].type = "tool_result" =>
                        h[i].content[j].id \in ToolUseIds(h[i - 1])

\* C29: _trim_history preserves tool pairing: when every tool-result
\* message of the input directly follows the assistant message with its
\* tool_use ids, the same holds of the result; truncation changes no
\* tool_use_id and eviction leaves no tool-result message without its
\* assistant message.
C29_PairingKept ==
    (TrimReturns /\ WellPaired(tinput)) =>
        /\ WellPaired(tresult)
        /\ WellPaired(thistory)

\* C31: _trim_history works on a copy: after the call the caller's history
\* (its message list and the contents of its tool-result blocks) is the
\* history that was passed in, including when the call truncated or evicted.
C31_CallerHistoryKept == tpc # "input" => thistory = tinput

(* --------------------- claims on run_agent, liveness ------------------- *)

\* C32: provided every model call and every tool dispatch eventually
\* completes, with a result or a fault, every run eventually emits `done`
\* and stops: it reaches its end with a `done` event as the last event.
C32_EventuallyDone == <>(RunOver /\ EndsWith(<<"done">>))

(* ---------------------- _fetch_openshift_groups ----------------------- *)

\* bounds of the groups model: calls made, and 30 second steps of the clock
MaxGroupCalls == 3

MaxTicks == 3

TickSeconds == 30

\* time.time() when the first request arrives; the epoch is far behind
ClockStart == 1000

_GROUPS_CACHE_TTL == 60

Group(name, users) == [name |-> name, users |-> users]

\* the lists of groups that the API answers with
ItemLists ==
    { <<>>,
      <<Group("admins", {"alice"})>>,
      <<Group("admins", {"alice"}), Group("devs", {"bob"})>> }

\* data.get("items", []) of a 200 response of the groups API: a list, or
\* what another JSON body gives ({"items": null}, {"items": 5},
\* {"items": 0}, {"items": true}, {"items": "x"}, {"items": {"a": 1}}, ...)
GroupsBodies ==
    {GroupsValue("list", items) : items \in ItemLists}
        \cup {GroupsValue(kind, <<>>) :
                kind \in {"null", "number", "zero", "true", "false", "string", "object"}}

\* bool(v) of Python: an empty list, None, 0 and False are false
GroupsTruthy(v) ==
    (v.kind = "list" /\ v.items # <<>>) \/ v.kind \in {"number", "true", "string", "object"}

\* len(v) gives a number: v is a list, a string or an object; on the others
\* it raises TypeError
GroupsSized(v) == v.kind \in {"list", "string", "object"}

GroupsInit ==
    /\ RunIdle
    /\ TrimIdle
    /\ AlertIdle
    /\ TrailIdle
    /\ CredsIdle
    /\ PoolIdle
    /\ ReportIdle
    /\ gnow = ClockStart
    /\ gtoken \in BOOLEAN
    /\ _groups_cache = GroupsValue("list", <<>>)
    /\ _groups_cache_time = 0
    /\ gcall = [c \in GroupsRequests |-> GroupsCallState("idle", "none", GroupsValue("list", <<>>))]
    /\ gmade = 0
    /\ gfetches = 0
    /\ glast = GroupsValue("list", <<>>)

\* the clock advances
GroupsTick ==
    /\ gnow < ClockStart + MaxTicks * TickSeconds
    /\ gnow' = gnow + TickSeconds
    /\ UNCHANGED << gtoken, _groups_cache, _groups_cache_time, gcall, gmade, gfetches, glast >>
    /\ UNCHANGED << runvars, trimvars, alertvars, trailvars, credvars, poolvars, reportvars >>

\* the cache test of _fetch_openshift_groups
GroupsCacheFresh ==
    GroupsTruthy(_groups_cache) /\ gnow - _groups_cache_time < _GROUPS_CACHE_TTL

\* request c calls _fetch_openshift_groups: it returns the fresh cache, or
\* [] outside OpenShift, or the stale cache when the token cannot be read,
\* or it opens the client, issues the GET and waits
GroupsCall(c, readable) ==
    /\ gcall[c].at \in {"idle", "returned"}
    /\ gmade < MaxGroupCalls
    /\ gmade' = gmade + 1
    /\ IF GroupsCacheFresh
       THEN /\ gcall' = [gcall EXCEPT ![c] = GroupsCallState("returned", "hit", _groups_cache)]
            /\ UNCHANGED gfetches
       ELSE IF ~gtoken
       THEN /\ gcall' = [gcall EXCEPT ![c] =
                            GroupsCallState("returned", "skipped", GroupsValue("list", <<>>))]
            /\ UNCHANGED gfetches
       ELSE IF ~readable
       THEN /\ gcall' = [gcall EXCEPT ![c] = GroupsCallState("returned", "failed", _groups_cache)]
            /\ UNCHANGED gfetches
       ELSE /\ gcall' = [gcall EXCEPT ![c] =
                            GroupsCallState("fetching", "none", GroupsValue("list", <<>>))]
            /\ gfetches' = gfetches + 1
    /\ UNCHANGED << gnow, gtoken, _groups_cache, _groups_cache_time, glast >>
    /\ UNCHANGED << runvars, trimvars, alertvars, trailvars, credvars, poolvars, reportvars >>

\* the GET of request c answers 200 with a JSON object whose items are
\* body: the cache and its timestamp are written, then len() of the cache is
\* logged, which raises on a value without a length, and the return value
\* is taken; what is left of the call is to close the client
GroupsFetchAnswers(c, body) ==
    /\ gcall[c].at = "fetching"
    /\ _groups_cache' = body
    /\ _groups_cache_time' = gnow
    /\ IF GroupsSized(body)
       THEN /\ glast' = body
            /\ gcall' = [gcall EXCEPT ![c] = GroupsCallState("closing", "fetched", body)]
       ELSE /\ UNCHANGED glast
            /\ gcall' = [gcall EXCEPT ![c] =
                            GroupsCallState("closing", "failed", GroupsValue("list", <<>>))]
    /\ UNCHANGED << gnow, gtoken, gmade, gfetches >>
    /\ UNCHANGED << runvars, trimvars, alertvars, trailvars, credvars, poolvars, reportvars >>

\* the GET of request c fails (connection, timeout, status, body): the
\* exception leaves the `async with` block, whose client is closed first
GroupsFetchFails(c) ==
    /\ gcall[c].at = "fetching"
    /\ gcall' = [gcall EXCEPT ![c] = GroupsCallState("closing", "failed", GroupsValue("list", <<>>))]
    /\ UNCHANGED << gnow, gtoken, _groups_cache, _groups_cache_time, gmade, gfetches, glast >>
    /\ UNCHANGED << runvars, trimvars, alertvars, trailvars, credvars, poolvars, reportvars >>

\* the client of request c has been closed, cleanly or not: the call returns
\* the value it took, or, from the except branch, the cache as it is now
GroupsFetchReturns(c, closed) ==
    /\ gcall[c].at = "closing"
    /\ IF gcall[c].how = "fetched" /\ closed
       THEN gcall' = [gcall EXCEPT ![c] = GroupsCallState("returned", "fetched", gcall[c].ret)]
       ELSE gcall' = [gcall EXCEPT ![c] = GroupsCallState("returned", "failed", _groups_cache)]
    /\ UNCHANGED << gnow, gtoken, _groups_cache, _groups_cache_time, gmade, gfetches, glast >>
    /\ UNCHANGED << runvars, trimvars, alertvars, trailvars, credvars, poolvars, reportvars >>

GroupsNext ==
    \/ GroupsTick
    \/ \E c \in GroupsRequests, readable \in BOOLEAN : GroupsCall(c, readable)
    \/ \E c \in GroupsRequests, body \in GroupsBodies : GroupsFetchAnswers(c, body)
    \/ \E c \in GroupsRequests : GroupsFetchFails(c)
    \/ \E c \in GroupsRequests, closed \in BOOLEAN : GroupsFetchReturns(c, closed)

SpecGroups == GroupsInit /\ [][GroupsNext]_vars

\* request c's call of _fetch_openshift_groups goes down, or ends on, its
\* failure path on this step
FetchFailsFor(c) == gcall'[c] # gcall[c] /\ gcall'[c].how = "failed"

\* C33: when fetching the authorization groups fails, the call returns the
\* groups of the last successful fetch (a stale read), leaves the cache and
\* its timestamp as they were, and raises nothing to its caller: the call
\* returns a list.
C33_StaleOnFailure ==
    [][\A c \in GroupsRequests :
            FetchFailsFor(c) =>
                /\ gcall'[c].at = "returned" => gcall'[c].ret = glast
                /\ _groups_cache' = _groups_cache
                /\ _groups_cache_time' = _groups_cache_time]_vars

\* request c calls _fetch_openshift_groups on this step
CallsFor(c) == gcall[c].at \in {"idle", "returned"} /\ gcall'[c] # gcall[c]

\* C34: after a successful fetch of the authorization groups, every call
\* within the next 60 seconds returns the cached list without issuing a new
\* fetch, whatever the fetched list was; a call made after the TTL has
\* expired goes to the API again.
C34_CachedForTTL ==
    [][\A c \in GroupsRequests :
            (CallsFor(c) /\ _groups_cache_time # 0 /\ _groups_cache = glast) =>
                IF gnow - _groups_cache_time < _GROUPS_CACHE_TTL
                THEN /\ gcall'[c].at = "returned"
                     /\ gcall'[c].how = "hit"
                     /\ gcall'[c].ret = glast
                     /\ gfetches' = gfetches
                ELSE gcall'[c].how # "hit"]_vars

(* ----------------------- cloudtrail._run_query ------------------------ *)

POLL_INTERVAL == 2

QUERY_TIMEOUT == 120

\* result["QueryStatus"] of get_query_results
QueryStatuses == {"QUEUED", "RUNNING", "FINISHED", "FAILED", "CANCELLED", "TIMED_OUT"}

\* _run_query has been called
TrailInit ==
    /\ RunIdle
    /\ TrimIdle
    /\ AlertIdle
    /\ GroupsIdle
    /\ CredsIdle
    /\ PoolIdle
    /\ ReportIdle
    /\ qpc = "start"
    /\ qelapsed = 0
    /\ qpolls = 0
    /\ qstatus = "none"
    /\ qresult = "none"

\* ct_client.start_query: the query id, or ClientError
TrailStart(ok) ==
    /\ qpc = "start"
    /\ qpc' = IF ok THEN "poll" ELSE "raised"
    /\ UNCHANGED << qelapsed, qpolls, qstatus, qresult >>
    /\ UNCHANGED << runvars, trimvars, alertvars, groupvars, credvars, poolvars, reportvars >>

\* ct_client.get_query_results in the polling loop, answering a status or
\* raising ClientError: FINISHED breaks out of the loop, a failed status
\* returns the error payload, any other status goes to sleep
TrailPoll(answer) ==
    /\ qpc = "poll"
    /\ qpolls' = qpolls + 1
    /\ IF answer = "ClientError"
       THEN /\ qpc' = "raised"
            /\ UNCHANGED << qstatus, qresult >>
       ELSE /\ qstatus' = answer
            /\ qpc' = IF answer = "FINISHED" THEN "collect"
                      ELSE IF answer \in {"FAILED", "CANCELLED", "TIMED_OUT"} THEN "returned"
                      ELSE "sleep"
            /\ qresult' = IF answer \in {"FAILED", "CANCELLED", "TIMED_OUT"} THEN "error"
                          ELSE qresult
    /\ UNCHANGED qelapsed
    /\ UNCHANGED << runvars, trimvars, alertvars, groupvars, credvars, poolvars, reportvars >>

\* mutant: the timeout test is strict
TrailSleep_LateTimeout ==
    /\ qpc = "sleep"
    /\ qelapsed' = qelapsed + POLL_INTERVAL
    /\ IF qelapsed + POLL_INTERVAL > QUERY_TIMEOUT
       THEN qpc' = "returned" /\ qresult' = "timeout"
       ELSE qpc' = "poll" /\ UNCHANGED qresult
    /\ UNCHANGED << qpolls, qstatus >>
    /\ UNCHANGED << runvars, trimvars, alertvars, groupvars, credvars, poolvars, reportvars >>

\* time.sleep(POLL_INTERVAL); elapsed += POLL_INTERVAL; the timed-out error
\* payload once elapsed >= QUERY_TIMEOUT
TrailSleep ==
    /\ qpc = "sleep"
    /\ qelapsed' = qelapsed + POLL_INTERVAL
    /\ IF qelapsed + POLL_INTERVAL >= QUERY_TIMEOUT
       THEN qpc' = "returned" /\ qresult' = "timeout"
       ELSE qpc' = "poll" /\ UNCHANGED qresult
    /\ UNCHANGED << qpolls, qstatus >>
    /\ UNCHANGED << runvars, trimvars, alertvars, groupvars, credvars, poolvars, reportvars >>

\* after the loop: the remaining pages are read and the rows are returned,
\* or a page request raises ClientError
TrailCollect(ok) ==
    /\ qpc = "collect"
    /\ IF ok
       THEN qpc' = "returned" /\ qresult' = "rows"
       ELSE qpc' = "raised" /\ UNCHANGED qresult
    /\ UNCHANGED << qelapsed, qpolls, qstatus >>
    /\ UNCHANGED << runvars, trimvars, alertvars, groupvars, credvars, poolvars, reportvars >>

TrailNext ==
    \/ \E ok \in BOOLEAN : TrailStart(ok)
    \/ \E answer \in QueryStatuses \cup {"ClientError"} : TrailPoll(answer)
    \/ TrailSleep
    \/ \E ok \in BOOLEAN : TrailCollect(ok)

\* _run_query in its worker thread: every call it makes returns or raises
SpecTrail == TrailInit /\ [][TrailNext]_vars /\ WF_vars(TrailNext)

\* C35: the polling loop of _run_query always terminates: the rows are
\* returned only once the status is FINISHED, a status of FAILED, CANCELLED
\* or TIMED_OUT gives the error payload, the timed-out payload is returned
\* exactly when the accumulated poll delay reaches QUERY_TIMEOUT, which is
\* after 60 polls at 2 seconds each, and no poll is made once the loop is
\* left.
C35_PollingTerminates ==
    /\ <>(qpc \in {"returned", "raised"})
    /\ [](qresult = "rows" <=> (qpc = "returned" /\ qstatus = "FINISHED"))
    /\ [](qstatus \in {"FAILED", "CANCELLED", "TIMED_OUT"} => (qpc = "returned" /\ qresult = "error"))
    /\ [](qresult = "timeout" <=> qelapsed >= QUERY_TIMEOUT)
    /\ [](qresult = "timeout" =>
            (qpc = "returned" /\ qelapsed = QUERY_TIMEOUT /\ qpolls * POLL_INTERVAL = QUERY_TIMEOUT))
    /\ [](qpolls * POLL_INTERVAL <= QUERY_TIMEOUT)
    /\ [][(qpc \in {"collect", "returned", "raised"}) => (qpolls' = qpolls)]_vars

C35_Witness ==
    /\ qpc = "returned"
    /\ qresult = "timeout"
    /\ qpolls = 60
    /\ qstatus \in {"QUEUED", "RUNNING"}

(* ------------------- aws_account._get_assumed_creds ------------------- *)

MaxCredCalls == 3

\* the worker threads start with the module's empty cache
CredsInit ==
    /\ RunIdle
    /\ TrimIdle
    /\ AlertIdle
    /\ GroupsIdle
    /\ TrailIdle
    /\ CredsIdle
    /\ PoolIdle
    /\ ReportIdle

\* thread t calls _get_assumed_creds(session, account_id): the cached entry
\* is returned, or sts.assume_role is called
CredsCall(t, account_id) ==
    /\ ccall[t].at # "sts"
    /\ cmade < MaxCredCalls
    /\ cmade' = cmade + 1
    /\ IF _assumed_creds[account_id] # Creds("absent", 0)
       THEN /\ ccall' = [ccall EXCEPT ![t] =
                            CredsCallState("returned", account_id, 0, _assumed_creds[account_id])]
            /\ cfirst' = IF cfirst[account_id] = Creds("absent", 0)
                         THEN [cfirst EXCEPT ![account_id] = _assumed_creds[account_id]]
                         ELSE cfirst
            /\ UNCHANGED csts
       ELSE /\ ccall' = [ccall EXCEPT ![t] = CredsCallState("sts", account_id, csts + 1, Creds("absent", 0))]
            /\ csts' = csts + 1
            /\ UNCHANGED cfirst
    /\ UNCHANGED _assumed_creds
    /\ UNCHANGED << runvars, trimvars, alertvars, groupvars, trailvars, poolvars, reportvars >>

\* the end of thread t's assume_role call: the Credentials, which are cached
\* and returned, or ClientError, for which None is cached and returned
CredsAssumed(t, granted) ==
    /\ ccall[t].at = "sts"
    /\ LET creds == IF granted THEN Creds("creds", ccall[t].sts) ELSE Creds("none", 0)
           account_id == ccall[t].account
       IN  /\ _assumed_creds' = [_assumed_creds EXCEPT ![account_id] = creds]
           /\ ccall' = [ccall EXCEPT ![t] = CredsCallState("returned", account_id, ccall[t].sts, creds)]
           /\ cfirst' = IF cfirst[account_id] = Creds("absent", 0)
                        THEN [cfirst EXCEPT ![account_id] = creds]
                        ELSE cfirst
    /\ UNCHANGED << cmade, csts >>
    /\ UNCHANGED << runvars, trimvars, alertvars, groupvars, trailvars, poolvars, reportvars >>

\* thread t's assume_role call raises an exception that is not a
\* ClientError (no endpoint, timeout): it leaves _get_assumed_creds
CredsRaises(t) ==
    /\ ccall[t].at = "sts"
    /\ ccall' = [ccall EXCEPT ![t] = CredsCallState("raised", ccall[t].account, ccall[t].sts, Creds("absent", 0))]
    /\ UNCHANGED << _assumed_creds, cmade, csts, cfirst >>
    /\ UNCHANGED << runvars, trimvars, alertvars, groupvars, trailvars, poolvars, reportvars >>

CredsNext ==
    \/ \E t \in CredThreads, account_id \in Accounts : CredsCall(t, account_id)
    \/ \E t \in CredThreads, granted \in BOOLEAN : CredsAssumed(t, granted)
    \/ \E t \in CredThreads : CredsRaises(t)

SpecCreds == CredsInit /\ [][CredsNext]_vars

\* thread t calls _get_assumed_creds on this step
CallsCreds(t) == ccall[t].at # "sts" /\ ccall'[t] # ccall[t]

\* C36: assumed-role credentials are cached per account id: once a call of
\* _get_assumed_creds for an account has returned, every call made later for
\* that account returns what that call returned and issues no new STS call,
\* also when what it returned was the failure None.
C36_CachedPerAccount ==
    [][\A t \in CredThreads :
            (CallsCreds(t) /\ cfirst[ccall'[t].account] # Creds("absent", 0)) =>
                /\ ccall'[t].at = "returned"
                /\ ccall'[t].ret = cfirst[ccall'[t].account]
                /\ csts' = csts]_vars

(* ------------------------ connections/postgres ------------------------ *)

MaxPoolCalls == 3

\* the pool is uninitialised: start-up has not created it, or its
\* init_pool failed and the first queries arrive
PoolInit ==
    /\ RunIdle
    /\ TrimIdle
    /\ AlertIdle
    /\ GroupsIdle
    /\ TrailIdle
    /\ CredsIdle
    /\ PoolIdle
    /\ ReportIdle

\* task t calls get_pool or init_pool: get_pool returns _pool when it is
\* set, otherwise it awaits init_pool, which awaits asyncpg.create_pool;
\* init_pool does so whether a pool is set or not
PoolCall(t, kind) ==
    /\ pcall[t].at \notin {"creating", "closing"}
    /\ pmade < MaxPoolCalls
    /\ pmade' = pmade + 1
    /\ pcall' = [pcall EXCEPT ![t] =
                    IF kind = "get_pool" /\ _pool # 0
                    THEN PoolCallState("returned", kind, _pool)
                    ELSE PoolCallState("creating", kind, 0)]
    /\ preplaced' = IF kind = "init_pool" /\ _pool # 0 THEN preplaced + 1 ELSE preplaced
    /\ UNCHANGED << _pool, pcreated >>
    /\ UNCHANGED << runvars, trimvars, alertvars, groupvars, trailvars, credvars, reportvars >>

\* asyncpg.create_pool of task t returns a new pool: init_pool assigns it to
\* _pool and returns it, and get_pool returns _pool
PoolCreated(t) ==
    /\ pcall[t].at = "creating"
    /\ pcreated' = pcreated + 1
    /\ _pool' = pcreated + 1
    /\ pcall' = [pcall EXCEPT ![t] = PoolCallState("returned", pcall[t].kind, pcreated + 1)]
    /\ UNCHANGED << pmade, preplaced >>
    /\ UNCHANGED << runvars, trimvars, alertvars, groupvars, trailvars, credvars, reportvars >>

\* asyncpg.create_pool of task t raises (database unreachable): the call
\* raises to its caller
PoolCreateFails(t) ==
    /\ pcall[t].at = "creating"
    /\ pcall' = [pcall EXCEPT ![t] = PoolCallState("raised", pcall[t].kind, 0)]
    /\ UNCHANGED << _pool, pmade, pcreated, preplaced >>
    /\ UNCHANGED << runvars, trimvars, alertvars, groupvars, trailvars, credvars, reportvars >>

\* task t calls close_pool: nothing to do while no pool is set, otherwise it
\* awaits _pool.close()
PoolClose(t) ==
    /\ pcall[t].at \notin {"creating", "closing"}
    /\ pmade < MaxPoolCalls
    /\ pmade' = pmade + 1
    /\ pcall' = [pcall EXCEPT ![t] =
                    IF _pool = 0 THEN PoolCallState("returned", "close_pool", 0)
                    ELSE PoolCallState("closing", "close_pool", 0)]
    /\ preplaced' = IF _pool # 0 THEN preplaced + 1 ELSE preplaced
    /\ UNCHANGED << _pool, pcreated >>
    /\ UNCHANGED << runvars, trimvars, alertvars, groupvars, trailvars, credvars, reportvars >>

\* _pool.close() of task t is over: _pool = None, whatever _pool is by now
PoolClosed(t) ==
    /\ pcall[t].at = "closing"
    /\ _pool' = 0
    /\ pcall' = [pcall EXCEPT ![t] = PoolCallState("returned", "close_pool", 0)]
    /\ UNCHANGED << pmade, pcreated, preplaced >>
    /\ UNCHANGED << runvars, trimvars, alertvars, groupvars, trailvars, credvars, reportvars >>

\* `await _pool.close()` of task t raises, or the task is cancelled at it:
\* close_pool has no try, the call raises and _pool stays as it is
PoolCloseFails(t) ==
    /\ pcall[t].at = "closing"
    /\ pcall' = [pcall EXCEPT ![t] = PoolCallState("raised", "close_pool", 0)]
    /\ UNCHANGED << _pool, pmade, pcreated, preplaced >>
    /\ UNCHANGED << runvars, trimvars, alertvars, groupvars, trailvars, credvars, reportvars >>

PoolNext ==
    \/ \E t \in PoolTasks, kind \in {"get_pool", "init_pool"} : PoolCall(t, kind)
    \/ \E t \in PoolTasks : PoolCreated(t)
    \/ \E t \in PoolTasks : PoolCreateFails(t)
    \/ \E t \in PoolTasks : PoolClose(t)
    \/ \E t \in PoolTasks : PoolClosed(t)
    \/ \E t \in PoolTasks : PoolCloseFails(t)

SpecPool == PoolInit /\ [][PoolNext]_vars

\* C37: for any interleaving of concurrent get_pool and init_pool calls made
\* while the pool is uninitialised, at most one connection pool is created
\* and every get_pool call that returns, returns that pool: never None, and
\* no pool is created and then lost.
C37_OnePool ==
    preplaced = 0 =>
        /\ pcreated <= 1
        /\ \A t \in PoolTasks :
                (pcall[t].at = "returned" /\ pcall[t].kind = "get_pool") =>
                    (pcall[t].ret # 0 /\ pcall[t].ret = _pool)

(* --------------------- generate_report across runs -------------------- *)

MaxReports == 3

\* two runs on the same day, REPORTS_DIR empty
ReportInit ==
    /\ RunIdle
    /\ TrimIdle
    /\ AlertIdle
    /\ GroupsIdle
    /\ TrailIdle
    /\ CredsIdle
    /\ PoolIdle
    /\ ReportIdle

\* the dispatch of a generate_report call of run r: _save_report opens the
\* file for writing and writes the content
ReportSaved(r, filename, fmt, content) ==
    /\ rrun[r].at = "idle"
    /\ rmade < MaxReports
    /\ rmade' = rmade + 1
    /\ rfiles' = [rfiles EXCEPT ![ReportFileName(filename, fmt)] = content]
    /\ rrun' = [rrun EXCEPT ![r] = ReportCallState("saved", ReportFileName(filename, fmt), content)]
    /\ UNCHANGED revents
    /\ UNCHANGED << runvars, trimvars, alertvars, groupvars, trailvars, credvars, poolvars >>

\* run r, its dispatch done, yields tool_result and the report event that
\* names result["filename"]
ReportEmitted(r) ==
    /\ rrun[r].at = "saved"
    /\ revents' = Append(revents, [run |-> r, filename |-> rrun[r].filename, content |-> rrun[r].content])
    /\ rrun' = [rrun EXCEPT ![r].at = "idle"]
    /\ UNCHANGED << rfiles, rmade >>
    /\ UNCHANGED << runvars, trimvars, alertvars, groupvars, trailvars, credvars, poolvars >>

ReportNext ==
    \/ \E r \in ReportRuns, filename \in ReportFilenames, fmt \in ReportFormats,
          content \in ReportContents : ReportSaved(r, filename, fmt, content)
    \/ \E r \in ReportRuns : ReportEmitted(r)

SpecReport == ReportInit /\ [][ReportNext]_vars

\* C38: runs do not interfere through generated reports: for any
\* interleaving of two runs, and for two report calls of one run, the file
\* named in a `report` event still holds the content passed to the
\* generate_report call that produced that event.
C38_ReportsKept ==
    \A i \in 1..Len(revents) : rfiles[revents[i].filename] = revents[i].content

====
